---- MODULE Spec2Model ----
(***************************************************************************)
(* Cart store (lib/cart.ts), cart view (components/Cart.tsx) and the       *)
(* variant fetch they depend on, of the shirt e-commerce frontend.         *)
(***************************************************************************)
EXTENDS Integers, Sequences, FiniteSets, TLC

VARIABLES
    storage,        \* localStorage value under CART_STORAGE_KEY
    lastOp,         \* the last cart-store call: its arguments and its outcome
    backend,        \* design id -> the shirtSizes documents GET /shirts/:id returns
    shirts,         \* Cart prop: the parent's fallback list
    isOpen,         \* Cart prop
    cart,           \* Cart state: the items and total on display
    cartShirts,     \* Cart state: the variants fetched for the cart items
    loadingShirts,  \* Cart state
    inflight,       \* the fetchCartShirts calls awaiting their fetches
    applied,        \* the last fetchCartShirts call that ran to its end
    cache,          \* referenceDataManager.cache: the four maps
    lastRef,        \* the last call made on referenceDataManager
    lastFetch,      \* the last catalog call of lib/api.ts: response and outcome
    interval,       \* the 500 ms interval of the Cart poll effect is armed
    lastTrigger     \* the last trigger the Cart watcher handled

storeVars == <<storage, lastOp>>
viewVars  == <<backend, shirts, isOpen, cart, cartShirts, loadingShirts,
               inflight, applied>>
refVars   == <<cache, lastRef>>
apiVars   == <<lastFetch>>
watchVars == <<interval, lastTrigger>>
vars      == <<storeVars, viewVars, refVars, apiVars, watchVars>>

(***************************************************************************)
(* Bounds                                                                  *)
(***************************************************************************)
MaxArg == 2         \* largest quantity argument passed to a store call
MaxQty == 3         \* store calls are explored while |quantity| <= MaxQty
MaxInflight == 1    \* fetchCartShirts calls in flight at once
MaxViewQty == 2     \* largest line quantity explored while the view runs

DesignIds == {"d1", "d2"}
Sizes     == {"M", "L"}
NoSize    == "none"                 \* CartItem.size is undefined
SizeArgs  == Sizes \cup {NoSize}
QtyArgs   == (0 - 1)..MaxArg        \* "arbitrary integer quantity arguments"

(***************************************************************************)
(* Values held by localStorage and returned by JSON.parse                  *)
(***************************************************************************)
Value(k, its, tot) == [kind |-> k, items |-> its, totalAmount |-> tot]

EmptyCart  == Value("cart", <<>>, 0)        \* { items: [], totalAmount: 0 }
Absent     == Value("absent", <<>>, 0)      \* getItem returns null
\* stored texts that are not a cart: unparseable text, "null", a number,
\* an object without an items array
CorruptKinds == {"garbage", "null", "number", "object"}

CartItem(d, s, q) == [shirtId |-> d, size |-> s, quantity |-> q]

\* JSON.stringify followed by JSON.parse of a cart: the fields of every item
\* are strings and integers and survive; an undefined size is dropped by
\* stringify and is read back as undefined.
JSONRoundTrip(c) ==
    Value("cart",
          [i \in 1..Len(c.items) |->
              CartItem(c.items[i].shirtId, c.items[i].size,
                       c.items[i].quantity)],
          c.totalAmount)

\* getCart: absent -> empty cart; JSON.parse throws -> empty cart; any text
\* that parses is returned as parsed, whatever its shape.
getCart(st) ==
    IF st.kind = "absent" THEN EmptyCart
    ELSE IF st.kind = "garbage" THEN EmptyCart
    ELSE st

\* saveCart: setItem(JSON.stringify(cart))
saveCart(c) == JSONRoundTrip(c)

\* cart.items.find / .filter / .push on a value without an items array
\* raises a TypeError
HasItems(v) == v.kind = "cart"

\* index of the first item with this shirtId, 0 when there is none
\* (Array.prototype.find returns the first match)
FindItem(items, shirtId) ==
    IF \E i \in 1..Len(items) : items[i].shirtId = shirtId
    THEN CHOOSE i \in 1..Len(items) :
            /\ items[i].shirtId = shirtId
            /\ \A j \in 1..(i - 1) : items[j].shirtId # shirtId
    ELSE 0

RECURSIVE FilterOut(_, _)
FilterOut(items, shirtId) ==
    IF items = <<>> THEN <<>>
    ELSE IF Head(items).shirtId = shirtId
         THEN FilterOut(Tail(items), shirtId)
         ELSE <<Head(items)>> \o FilterOut(Tail(items), shirtId)

\* addToCart without the lookup of an existing item
addToCart_AlwaysPush(st, shirtId, quantity) ==
    LET c == getCart(st)
    IN  [c EXCEPT !.items = Append(@, CartItem(shirtId, NoSize, quantity))]

\* addToCart with "=" in place of "+="
addToCart_Overwrite(st, shirtId, quantity) ==
    LET c == getCart(st)
        k    == FindItem(c.items, shirtId)
    IN  IF k # 0
        THEN [c EXCEPT !.items[k].quantity = quantity]
        ELSE [c EXCEPT !.items = Append(@, CartItem(shirtId, NoSize, quantity))]

\* addToCart(shirtId, quantity): the cart after the call
addToCart(st, shirtId, quantity) ==
    LET c == getCart(st)
        k    == FindItem(c.items, shirtId)
    IN  IF k # 0
        THEN [c EXCEPT !.items[k].quantity = @ + quantity]
        ELSE [c EXCEPT !.items = Append(@, CartItem(shirtId, NoSize, quantity))]

\* removeFromCart(shirtId): the cart after the call
removeFromCart(st, shirtId) ==
    LET c == getCart(st)
    IN  [c EXCEPT !.items = FilterOut(@, shirtId)]

\* updateCartItemQuantity without the "quantity <= 0" branch
updateCartItemQuantity_NoFloor(st, shirtId, quantity) ==
    LET c == getCart(st)
        k    == FindItem(c.items, shirtId)
    IN  IF k # 0
        THEN [c EXCEPT !.items[k].quantity = quantity]
        ELSE c

\* updateCartItemQuantity(shirtId, quantity): the cart after the call
updateCartItemQuantity(st, shirtId, quantity) ==
    LET c == getCart(st)
        k    == FindItem(c.items, shirtId)
    IN  IF k # 0
        THEN IF quantity <= 0
             THEN removeFromCart(st, shirtId)
             ELSE [c EXCEPT !.items[k].quantity = quantity]
        ELSE c

(***************************************************************************)
(* Cart-store calls                                                        *)
(***************************************************************************)
\* before: what getCart() returned on entry; ret: the value returned
Op(o, d, s, q, t, b, r) ==
    [op |-> o, shirtId |-> d, size |-> s, quantity |-> q, threw |-> t,
     before |-> b, ret |-> r]

NoOp == Op("none", "d1", NoSize, 0, FALSE, EmptyCart, EmptyCart)

WithinBound(c) ==
    \A i \in 1..Len(c.items) :
        /\ c.items[i].quantity <= MaxQty
        /\ c.items[i].quantity >= 0 - MaxQty

\* get()
GetCart ==
    /\ lastOp' = Op("get", "d1", NoSize, 0, FALSE, getCart(storage), getCart(storage))
    /\ UNCHANGED <<storage, viewVars, refVars, apiVars, watchVars>>

\* add(designId, sizeName, quantity) as the product page calls it:
\* addToCart(shirtId, quantity, selectedVariant.size); the callee declares
\* two parameters, the third argument is not read.
AddToCart(d, s, q) ==
    /\ IF HasItems(getCart(storage))
       THEN LET c == addToCart(storage, d, q)
            IN  /\ WithinBound(c)
                /\ storage' = saveCart(c)
                /\ lastOp' = Op("add", d, s, q, FALSE, getCart(storage), c)
       ELSE /\ lastOp' = Op("add", d, s, q, TRUE, getCart(storage), EmptyCart)
            /\ UNCHANGED storage
    /\ UNCHANGED <<viewVars, refVars, apiVars, watchVars>>

\* remove(designId)
RemoveFromCart(d) ==
    /\ IF HasItems(getCart(storage))
       THEN LET c == removeFromCart(storage, d)
            IN  /\ storage' = saveCart(c)
                /\ lastOp' = Op("remove", d, NoSize, 0, FALSE, getCart(storage), c)
       ELSE /\ lastOp' = Op("remove", d, NoSize, 0, TRUE, getCart(storage), EmptyCart)
            /\ UNCHANGED storage
    /\ UNCHANGED <<viewVars, refVars, apiVars, watchVars>>

\* setQuantity(designId, quantity)
UpdateCartItemQuantity(d, q) ==
    /\ IF HasItems(getCart(storage))
       THEN LET c == updateCartItemQuantity(storage, d, q)
            IN  /\ storage' = saveCart(c)
                /\ lastOp' = Op("setQuantity", d, NoSize, q, FALSE, getCart(storage), c)
       ELSE /\ lastOp' = Op("setQuantity", d, NoSize, q, TRUE, getCart(storage), EmptyCart)
            /\ UNCHANGED storage
    /\ UNCHANGED <<viewVars, refVars, apiVars, watchVars>>

\* clear(): removeItem(CART_STORAGE_KEY)
ClearCart ==
    /\ storage' = Absent
    /\ lastOp' = Op("clear", "d1", NoSize, 0, FALSE, EmptyCart, EmptyCart)
    /\ UNCHANGED <<viewVars, refVars, apiVars, watchVars>>

\* saveCart when setItem may throw (storage full or disabled): the catch
\* logs and returns, the stored value stays as it was
saveCartOn(st, c, writable) == IF writable THEN saveCart(c) ELSE st

\* addToCart over a storage that accepts the write or not
AddToCartOn(d, s, q, writable) ==
    /\ IF HasItems(getCart(storage))
       THEN LET c == addToCart(storage, d, q)
            IN  /\ WithinBound(c)
                /\ storage' = saveCartOn(storage, c, writable)
                /\ lastOp' = Op("add", d, s, q, FALSE, getCart(storage), c)
       ELSE /\ lastOp' = Op("add", d, s, q, TRUE, getCart(storage), EmptyCart)
            /\ UNCHANGED storage
    /\ UNCHANGED <<viewVars, refVars, apiVars, watchVars>>

\* removeFromCart over a storage that accepts the write or not
RemoveFromCartOn(d, writable) ==
    /\ IF HasItems(getCart(storage))
       THEN LET c == removeFromCart(storage, d)
            IN  /\ storage' = saveCartOn(storage, c, writable)
                /\ lastOp' = Op("remove", d, NoSize, 0, FALSE, getCart(storage), c)
       ELSE /\ lastOp' = Op("remove", d, NoSize, 0, TRUE, getCart(storage), EmptyCart)
            /\ UNCHANGED storage
    /\ UNCHANGED <<viewVars, refVars, apiVars, watchVars>>

\* updateCartItemQuantity over a storage that accepts the write or not
UpdateCartItemQuantityOn(d, q, writable) ==
    /\ IF HasItems(getCart(storage))
       THEN LET c == updateCartItemQuantity(storage, d, q)
            IN  /\ storage' = saveCartOn(storage, c, writable)
                /\ lastOp' = Op("setQuantity", d, NoSize, q, FALSE, getCart(storage), c)
       ELSE /\ lastOp' = Op("setQuantity", d, NoSize, q, TRUE, getCart(storage), EmptyCart)
            /\ UNCHANGED storage
    /\ UNCHANGED <<viewVars, refVars, apiVars, watchVars>>

(***************************************************************************)
(* Reference cache (lib/referenceData.ts)                                  *)
(***************************************************************************)
SizeRefIds == {"s1", "s2"}              \* ObjectIds of SizeReference documents
TypeNames  == {"Casual", "Formal"}
TypeIds    == {"t1", "t2"}              \* ObjectIds of ShirtType documents
Undefined  == "undefined"               \* an absent string field
Null       == "null"

\* a SizeReference / ShirtTypeReference object, a plain string, or undefined
Ref(k, id, name) == [kind |-> k, _id |-> id, name |-> name]

Populated(id, name) == Ref("object", id, name)
Plain(value)        == Ref("string", "", value)
NoRef               == Ref("undefined", "", "")

\* the fields of a BackendShirt that extractFromShirt reads, and
\* sizeReferenceId, which it leaves unread
BackendShirt(sr, sref, srid, st, ty, stid) ==
    [sizeRef |-> sr, sizeReference |-> sref, sizeReferenceId |-> srid,
     shirtType |-> st, type |-> ty, shirtTypeId |-> stid]

\* the fields of a GroupedShirtResponse that extractFromGroupedShirt reads
GroupedShirtResponse(st, ty, stid, vs) ==
    [shirtType |-> st, type |-> ty, shirtTypeId |-> stid, variants |-> vs]

\* new Map() four times
EmptyCache ==
    [sizes       |-> [n \in Sizes |-> Null],
     types       |-> [n \in TypeNames |-> Null],
     sizeObjects |-> [i \in SizeRefIds |-> NoRef],
     typeObjects |-> [i \in TypeIds |-> NoRef]]

\* the size part of extractFromShirt, and of the forEach of
\* extractFromGroupedShirt: sizeRef, else sizeReference
extractSizeRef(c, v) ==
    IF v.sizeRef.kind # "undefined"
    THEN [c EXCEPT !.sizes[v.sizeRef.name] = v.sizeRef._id,
                   !.sizeObjects[v.sizeRef._id] = v.sizeRef]
    ELSE IF v.sizeReference.kind # "undefined"
    THEN [c EXCEPT !.sizes[v.sizeReference.name] = v.sizeReference._id,
                   !.sizeObjects[v.sizeReference._id] = v.sizeReference]
    ELSE c

\* the type part with both maps keyed through the name index: the object
\* is filed under the id the name had before
extractTypeRef_ByName(c, v) ==
    IF v.shirtType.kind # "undefined"
    THEN IF v.shirtType.kind = "object"
         THEN LET known == c.types[v.shirtType.name]
                  key   == IF known # Null THEN known ELSE v.shirtType._id
              IN  [c EXCEPT !.types[v.shirtType.name] = v.shirtType._id,
                            !.typeObjects[key] = v.shirtType]
         ELSE c
    ELSE IF v.type # Undefined /\ v.shirtTypeId # Undefined
    THEN [c EXCEPT !.types[v.type] = v.shirtTypeId]
    ELSE c

\* the type part with the legacy branch taken on shirtTypeId alone
extractTypeRef_IdOnly(c, v) ==
    IF v.shirtType.kind # "undefined"
    THEN IF v.shirtType.kind = "object"
         THEN [c EXCEPT !.types[v.shirtType.name] = v.shirtType._id,
                        !.typeObjects[v.shirtType._id] = v.shirtType]
         ELSE c
    ELSE IF v.shirtTypeId # Undefined
    THEN [c EXCEPT !.types = (v.type :> v.shirtTypeId) @@ @]
    ELSE c

\* the type part that forgets the object of the id the name leaves
extractTypeRef_Evict(c, v) ==
    IF v.shirtType.kind # "undefined"
    THEN IF v.shirtType.kind = "object"
         THEN LET known   == c.types[v.shirtType.name]
                  cleaned == IF known # Null /\ known # v.shirtType._id
                             THEN [c EXCEPT !.typeObjects[known] = NoRef]
                             ELSE c
              IN  [cleaned EXCEPT !.types[v.shirtType.name] = v.shirtType._id,
                                  !.typeObjects[v.shirtType._id] = v.shirtType]
         ELSE c
    ELSE IF v.type # Undefined /\ v.shirtTypeId # Undefined
    THEN [c EXCEPT !.types[v.type] = v.shirtTypeId]
    ELSE c

\* the type part of extractFromShirt and of extractFromGroupedShirt: a
\* populated shirtType object with an _id, else nothing when shirtType is
\* set, else the legacy pair type + shirtTypeId
extractTypeRef(c, v) ==
    IF v.shirtType.kind # "undefined"
    THEN IF v.shirtType.kind = "object"
         THEN [c EXCEPT !.types[v.shirtType.name] = v.shirtType._id,
                        !.typeObjects[v.shirtType._id] = v.shirtType]
         ELSE c
    ELSE IF v.type # Undefined /\ v.shirtTypeId # Undefined
    THEN [c EXCEPT !.types[v.type] = v.shirtTypeId]
    ELSE c

\* extractFromShirt(shirt): the cache after the call
extractFromShirt(c, shirt) == extractTypeRef(extractSizeRef(c, shirt), shirt)

RECURSIVE extractVariants(_, _)
extractVariants(c, variants) ==
    IF variants = <<>> THEN c
    ELSE extractVariants(extractSizeRef(c, Head(variants)), Tail(variants))

\* extractFromGroupedShirt(groupedShirt): the cache after the call
extractFromGroupedShirt(c, groupedShirt) ==
    extractVariants(extractTypeRef(c, groupedShirt), groupedShirt.variants)

\* getSizeId / getTypeId: ids are ObjectIds, never the empty string
getSizeId(c, size) == c.sizes[size]
getTypeId(c, type) == c.types[type]

\* getSizeName / getTypeName
getSizeName(c, sizeId) ==
    IF c.sizeObjects[sizeId].kind = "undefined" THEN Null
    ELSE c.sizeObjects[sizeId].name
getTypeName(c, typeId) ==
    IF c.typeObjects[typeId].kind = "undefined" THEN Null
    ELSE c.typeObjects[typeId].name

(***************************************************************************)
(* Catalog normalizer (lib/api.ts)                                         *)
(***************************************************************************)
\* extractSize with sizeRef looked at before sizeReference
extractSize_RefFirst(raw) ==
    IF raw.sizeRef.kind = "object" /\ raw.sizeRef.name # ""
    THEN raw.sizeRef.name
    ELSE IF raw.sizeReference.kind = "object" /\ raw.sizeReference.name # ""
    THEN raw.sizeReference.name
    ELSE IF raw.shirtSize.kind \in {"object", "string"} /\ raw.shirtSize.name # ""
    THEN raw.shirtSize.name
    ELSE IF raw.size # Undefined THEN raw.size
    ELSE "M"

\* extractSize: sizeReference.name, else sizeRef.name, else the legacy
\* shirtSize (object or string), else size, else the fallback 'M'
extractSize(raw) ==
    IF raw.sizeReference.kind = "object" /\ raw.sizeReference.name # ""
    THEN raw.sizeReference.name
    ELSE IF raw.sizeRef.kind = "object" /\ raw.sizeRef.name # ""
    THEN raw.sizeRef.name
    ELSE IF raw.shirtSize.kind \in {"object", "string"} /\ raw.shirtSize.name # ""
    THEN raw.shirtSize.name
    ELSE IF raw.size # Undefined THEN raw.size
    ELSE "M"

\* extractType: shirtType.name, else the string shirtType, else type, else
\* the fallback 'Casual'
extractType(raw) ==
    IF raw.shirtType.kind \in {"object", "string"} /\ raw.shirtType.name # ""
    THEN raw.shirtType.name
    ELSE IF raw.type # Undefined THEN raw.type
    ELSE "Casual"

\* a Shirt (name, description and imageUrl, which are copied and never
\* read again, are left out)
Shirt(id, sz, ty, st, op, dp) ==
    [id |-> id, size |-> sz, type |-> ty, stock |-> st,
     originalPrice |-> op, discountedPrice |-> dp]

NoShirt == Shirt("none", NoSize, Undefined, 0, 0, 0)      \* undefined

\* mapBackendShirtToShirt with price and finalPrice crossed
mapBackendShirtToShirt_Swapped(backendShirt) ==
    Shirt(backendShirt._id, extractSize(backendShirt), extractType(backendShirt),
          backendShirt.stock, backendShirt.finalPrice, backendShirt.price)

\* mapBackendShirtToShirt, the Shirt returned
mapBackendShirtToShirt(backendShirt) ==
    Shirt(backendShirt._id, extractSize(backendShirt), extractType(backendShirt),
          backendShirt.stock, backendShirt.price, backendShirt.finalPrice)

(***************************************************************************)
(* Backend and variant fetch                                               *)
(***************************************************************************)
\* the SizeReference document of a size name
SizeReferenceOf(size) == Populated(IF size = "M" THEN "s1" ELSE "s2", size)

\* a ShirtSize document of GET /shirts/:id, sizeReference populated
RawSize(id, sz, st, p, fp) ==
    [_id |-> id, sizeRef |-> NoRef, sizeReference |-> SizeReferenceOf(sz),
     sizeReferenceId |-> SizeReferenceOf(sz)._id, shirtSize |-> NoRef,
     size |-> Undefined, price |-> p, finalPrice |-> fp, stock |-> st]

\* the Shirt design document of GET /shirts/:id, shirtType populated
ShirtDesign(d) ==
    [_id |-> d, shirtType |-> Populated("t1", "Casual"), type |-> Undefined,
     shirtTypeId |-> "t1"]

\* ShirtSize document ids and design ids are ids of different collections
CatalogA ==
    [d \in DesignIds |->
        IF d = "d1" THEN <<RawSize("v1", "M", 4, 200, 170)>>
        ELSE <<RawSize("v2", "M", 0, 100, 100), RawSize("v3", "L", 5, 150, 120)>>]

CatalogB ==
    [d \in DesignIds |->
        IF d = "d1" THEN <<RawSize("v1", "M", 0, 200, 170),
                           RawSize("v4", "L", 0, 200, 180)>>
        ELSE <<RawSize("v2", "M", 3, 100, 100), RawSize("v3", "L", 0, 150, 120)>>]

Catalogs == {CatalogA, CatalogB}

\* fetchShirtVariantsByDesignId, the mapping of one ShirtSize document
mapVariant(shirtSize, shirtDesign) ==
    Shirt(shirtSize._id, extractSize(shirtSize), extractType(shirtDesign),
          shirtSize.stock, shirtSize.price, shirtSize.finalPrice)

\* fetchShirtVariantsByDesignId on a successful response
fetchShirtVariantsByDesignId(be, d) ==
    [i \in 1..Len(be[d]) |-> mapVariant(be[d][i], ShirtDesign(d))]

\* fetchShirtVariantsByDesignId, what it passes to extractFromShirt for
\* one ShirtSize document: { ...shirtSize, ...shirtDesign }
MergedRecord(shirtSize, shirtDesign) == shirtDesign @@ shirtSize

\* fetchShirtVariantsByDesignId, the cache after its map over shirtSizes
RECURSIVE recordVariants(_, _, _)
recordVariants(c, raws, shirtDesign) ==
    IF raws = <<>> THEN c
    ELSE recordVariants(extractFromShirt(c, MergedRecord(Head(raws), shirtDesign)),
                        Tail(raws), shirtDesign)

\* the raw records recorded: the size fields and the type fields a
\* backend document carries, populated or not
SizeParts ==
    {<<NoRef, NoRef, Undefined>>,
     <<NoRef, NoRef, "s1">>,
     <<Populated("s1", "M"), NoRef, "s1">>,
     <<Populated("s2", "M"), NoRef, "s2">>,
     <<NoRef, Populated("s1", "L"), "s1">>,
     <<Populated("s2", "L"), Populated("s1", "M"), "s2">>}

TypeParts ==
    {<<NoRef, Undefined, Undefined>>,
     <<NoRef, Undefined, "t1">>,
     <<Populated("t1", "Casual"), Undefined, "t1">>,
     <<Populated("t2", "Casual"), Undefined, "t2">>,
     <<Plain("t1"), Undefined, "t1">>,
     <<Plain("t1"), "Formal", "t1">>,
     <<NoRef, "Formal", "t1">>}

RawShirts ==
    {BackendShirt(sp[1], sp[2], sp[3], tp[1], tp[2], tp[3]) :
        sp \in SizeParts, tp \in TypeParts}

\* a variant of a grouped record: its size fields
RawVariant(sp) == [sizeRef |-> sp[1], sizeReference |-> sp[2], sizeReferenceId |-> sp[3]]

VariantLists ==
    {<<>>,
     <<RawVariant(<<NoRef, NoRef, "s1">>)>>,
     <<RawVariant(<<Populated("s1", "M"), NoRef, "s1">>)>>,
     <<RawVariant(<<Populated("s1", "M"), NoRef, "s1">>),
       RawVariant(<<NoRef, Populated("s2", "L"), "s2">>)>>,
     <<RawVariant(<<Populated("s1", "M"), NoRef, "s1">>),
       RawVariant(<<Populated("s2", "M"), NoRef, "s2">>)>>}

RawGroupedShirts ==
    {GroupedShirtResponse(tp[1], tp[2], tp[3], vs) :
        tp \in TypeParts, vs \in VariantLists}

\* a call on referenceDataManager: its argument and what it returned
\* (again: the same record as the call just before)
RefOp(o, shirt, grouped, key, ret, again) ==
    [op |-> o, shirt |-> shirt, grouped |-> grouped, key |-> key, ret |-> ret,
     again |-> again]

NoBackendShirt == BackendShirt(NoRef, NoRef, Undefined, NoRef, Undefined, Undefined)
NoGroupedShirt == GroupedShirtResponse(NoRef, Undefined, Undefined, <<>>)
NoRefOp        == RefOp("none", NoBackendShirt, NoGroupedShirt, Undefined, Null, FALSE)

\* the module is loaded: the singleton with its four empty maps
CacheLoaded == cache = EmptyCache /\ lastRef = NoRefOp

ExtractFromShirt(shirt) ==
    /\ cache' = extractFromShirt(cache, shirt)
    /\ lastRef' = RefOp("extractFromShirt", shirt, NoGroupedShirt, Undefined, Null,
                        lastRef.op = "extractFromShirt" /\ lastRef.shirt = shirt)
    /\ UNCHANGED <<storeVars, viewVars, apiVars, watchVars>>

ExtractFromGroupedShirt(groupedShirt) ==
    /\ cache' = extractFromGroupedShirt(cache, groupedShirt)
    /\ lastRef' = RefOp("extractFromGroupedShirt", NoBackendShirt, groupedShirt,
                        Undefined, Null,
                        /\ lastRef.op = "extractFromGroupedShirt"
                        /\ lastRef.grouped = groupedShirt)
    /\ UNCHANGED <<storeVars, viewVars, apiVars, watchVars>>

GetSizeId(size) ==
    /\ lastRef' = RefOp("getSizeId", NoBackendShirt, NoGroupedShirt, size,
                        getSizeId(cache, size), FALSE)
    /\ UNCHANGED <<storeVars, viewVars, cache, apiVars, watchVars>>

GetTypeId(type) ==
    /\ lastRef' = RefOp("getTypeId", NoBackendShirt, NoGroupedShirt, type,
                        getTypeId(cache, type), FALSE)
    /\ UNCHANGED <<storeVars, viewVars, cache, apiVars, watchVars>>

GetSizeName(sizeId) ==
    /\ lastRef' = RefOp("getSizeName", NoBackendShirt, NoGroupedShirt, sizeId,
                        getSizeName(cache, sizeId), FALSE)
    /\ UNCHANGED <<storeVars, viewVars, cache, apiVars, watchVars>>

GetTypeName(typeId) ==
    /\ lastRef' = RefOp("getTypeName", NoBackendShirt, NoGroupedShirt, typeId,
                        getTypeName(cache, typeId), FALSE)
    /\ UNCHANGED <<storeVars, viewVars, cache, apiVars, watchVars>>

\* clear()
ClearCache ==
    /\ cache' = EmptyCache
    /\ lastRef' = RefOp("clear", NoBackendShirt, NoGroupedShirt, Undefined, Null,
                        FALSE)
    /\ UNCHANGED <<storeVars, viewVars, apiVars, watchVars>>

(***************************************************************************)
(* Catalog calls (lib/api.ts): fetchShirts, fetchShirtVariantsByDesignId   *)
(***************************************************************************)
\* the discount of a Shirt design
Discount(t, v) == [type |-> t, value |-> v]

Discounts ==
    {Discount("none", 0), Discount("percentage", 15), Discount("percentage", 100),
     Discount("amount", 50), Discount("amount", 300)}

Prices == {0, 200}

\* the backend's pre-save hook of ShirtSize: the price with the discount
finalPriceOf(price, discount) ==
    IF discount.type = "percentage" THEN (price * (100 - discount.value)) \div 100
    ELSE IF discount.type = "amount" THEN price - discount.value
    ELSE price

\* the <<price, finalPrice>> pairs of the documents the backend holds: the
\* ShirtSize schema sets min 0 on both
PricePairs ==
    {pp \in {<<price, finalPriceOf(price, disc)>> : price \in Prices, disc \in Discounts} :
        pp[2] >= 0}

\* a raw record of the flat list: the reference fields with the others
RawShirt(id, refs, shirtSize, size, pp, st) ==
    refs @@ [_id |-> id, shirtSize |-> shirtSize, size |-> size,
             price |-> pp[1], finalPrice |-> pp[2], stock |-> st]

\* a variant of a raw grouped record, sizeRef populated
GroupedVariant(id, sz, pp, st) ==
    [_id |-> id, sizeRef |-> SizeReferenceOf(sz), sizeReference |-> NoRef,
     sizeReferenceId |-> SizeReferenceOf(sz)._id, shirtSize |-> NoRef,
     size |-> Undefined, price |-> pp[1], finalPrice |-> pp[2], stock |-> st]

\* a raw grouped record
RawGroupedShirt(id, vs, availableSizes) ==
    GroupedShirtResponse(Populated("t1", "Casual"), Undefined, "t1", vs)
        @@ [_id |-> id, availableSizes |-> availableSizes]

\* the size fields of a record that carries several of them, with
\* different values: <<sizeRef, sizeReference, shirtSize, size>>
MixedSizeFields ==
    {<<Populated("s1", "M"), Populated("s2", "L"), Plain("M"), "M">>,
     <<Populated("s2", "L"), NoRef, Plain("M"), "M">>,
     <<NoRef, NoRef, Plain("L"), "M">>,
     <<NoRef, NoRef, NoRef, "L">>,
     <<NoRef, NoRef, NoRef, Undefined>>}

\* the type fields likewise: <<shirtType, type>>
MixedTypeFields ==
    {<<Populated("t2", "Formal"), "Casual">>,
     <<Plain("Formal"), "Casual">>,
     <<NoRef, "Formal">>,
     <<NoRef, Undefined>>}

MixedRecords ==
    {RawShirt("v1",
              BackendShirt(sf[1], sf[2], "s1", tf[1], tf[2], "t1"),
              sf[3], sf[4], <<200, 200>>, 1) :
        sf \in MixedSizeFields, tf \in MixedTypeFields}

FlatPages ==
    LET first(pp)  == RawShirt("v1",
                          BackendShirt(Populated("s1", "M"), NoRef, "s1",
                                       Populated("t1", "Casual"), Undefined, "t1"),
                          NoRef, Undefined, pp, 3)
        second(pp) == RawShirt("v2",
                          BackendShirt(NoRef, Populated("s2", "L"), "s2",
                                       NoRef, "Formal", "t2"),
                          NoRef, Undefined, pp, 0)
        \* a record that carries the identifier of its size and nothing else
        idOnly     == RawShirt("v3",
                          BackendShirt(NoRef, NoRef, "s2", NoRef, "Formal", "t2"),
                          NoRef, Undefined, <<200, 200>>, 1)
    IN  {<<>>} \cup {<<first(pp)>> : pp \in PricePairs}
               \cup {<<first(pp), second(qq)>> : pp \in PricePairs, qq \in PricePairs}
               \cup {<<second(<<200, 200>>), idOnly>>, <<idOnly, second(<<200, 200>>)>>}

\* the availableSizes a grouped record may carry
AvailableSizeLists == {<<>>, <<"M">>, <<"M", "L">>, <<"L", "M">>}

GroupedPages ==
    LET lists == {<<>>}
                 \cup {<<GroupedVariant("v1", "M", pp, 0)>> : pp \in PricePairs}
                 \cup {<<GroupedVariant("v1", "M", pp, 3),
                         GroupedVariant("v2", "L", qq, 0)>> :
                            pp \in PricePairs, qq \in PricePairs}
    IN  {<<>>} \cup {<<RawGroupedShirt("d1", vs, av)>> :
                        vs \in lists, av \in AvailableSizeLists}

\* the grouped pages as the backend documents them: availableSizes holds
\* the size names of the variants with stock > 0, variants holds them all
DocumentedPages ==
    LET lists    == {<<>>}
                    \cup {<<GroupedVariant("v1", "M", pp, st)>> :
                        pp \in PricePairs, st \in {0, 3}}
                    \cup {<<GroupedVariant("v1", "M", pp, st1),
                            GroupedVariant("v2", "L", qq, st2)>> :
                               pp \in PricePairs, qq \in PricePairs,
                               st1 \in {0, 3}, st2 \in {0, 5}}
        inStock(vs) == {vs[k].sizeRef.name : k \in {j \in 1..Len(vs) : vs[j].stock > 0}}
        orders   == {<<>>, <<"M">>, <<"L">>, <<"M", "L">>, <<"L", "M">>}
    IN  {<<RawGroupedShirt("d1", p[1], p[2])>> :
            p \in {q \in lists \X orders :
                      /\ {q[2][k] : k \in 1..Len(q[2])} = inStock(q[1])
                      /\ Len(q[2]) = Cardinality(inStock(q[1]))}}

\* the data field of a response: absent, an object with the shirts list,
\* or an object without it
Data(k, hasShirts, list) == [kind |-> k, hasShirts |-> hasShirts, shirts |-> list]

NoData == Data("undefined", FALSE, <<>>)

\* the parsed body of an HTTP-successful response
ApiResponse(success, data) == [success |-> success, data |-> data]

\* the bodies answered to GET /shirts with and without groupBy=design
Responses_fetchShirts(groupBy) ==
    LET pages == IF groupBy = "design" THEN GroupedPages ELSE FlatPages
    IN  {ApiResponse(TRUE, Data("object", TRUE, pg)) : pg \in pages}
        \cup {ApiResponse(FALSE, Data("object", TRUE, <<>>)),
              ApiResponse(FALSE, NoData),
              ApiResponse(TRUE, NoData),
              ApiResponse(TRUE, Data("object", FALSE, <<>>)),
              ApiResponse(FALSE, Data("object", FALSE, <<>>))}

\* what a catalog call gives back
Return(k, data, response) == [kind |-> k, data |-> data, response |-> response]

NoResponse == ApiResponse(FALSE, NoData)
NoReturn   == Return("none", <<>>, NoResponse)

\* fetchShirts, the forEach that records the page in the reference cache
RECURSIVE recordPage(_, _)
recordPage(c, list) ==
    IF list = <<>> THEN c
    ELSE recordPage(IF "variants" \in DOMAIN Head(list)
                    THEN extractFromGroupedShirt(c, Head(list))
                    ELSE extractFromShirt(c, Head(list)),
                    Tail(list))

\* fetchShirts, the grouped branch with availableSizes recomputed from the
\* stock of the variants
mapGroupedShirt_FromStock(groupedShirt) ==
    LET type     == extractType(groupedShirt)
        variants == [k \in 1..Len(groupedShirt.variants) |->
                        LET variant == groupedShirt.variants[k]
                        IN  Shirt(variant._id, extractSize(variant), type,
                                  variant.stock, variant.price, variant.finalPrice)]
        inStock  == SelectSeq(variants, LAMBDA v : v.stock > 0)
    IN  [id |-> groupedShirt._id, type |-> type,
         originalPrice |-> IF Len(variants) > 0 THEN variants[1].originalPrice ELSE 0,
         discountedPrice |-> IF Len(variants) > 0 THEN variants[1].discountedPrice ELSE 0,
         variants |-> variants,
         availableSizes |-> [k \in 1..Len(inStock) |-> inStock[k].size]]

\* fetchShirts, the grouped branch with the prices of the cheapest variant
\* as the representative ones
mapGroupedShirt_Cheapest(groupedShirt) ==
    LET type     == extractType(groupedShirt)
        variants == [k \in 1..Len(groupedShirt.variants) |->
                        LET variant == groupedShirt.variants[k]
                        IN  Shirt(variant._id, extractSize(variant), type,
                                  variant.stock, variant.price, variant.finalPrice)]
        cheapest == CHOOSE k \in 1..Len(variants) :
                        \A j \in 1..Len(variants) :
                            variants[k].discountedPrice <= variants[j].discountedPrice
    IN  [id |-> groupedShirt._id, type |-> type,
         originalPrice |-> IF Len(variants) > 0 THEN variants[cheapest].originalPrice ELSE 0,
         discountedPrice |-> IF Len(variants) > 0 THEN variants[cheapest].discountedPrice
                             ELSE 0,
         variants |-> variants,
         availableSizes |-> groupedShirt.availableSizes]

\* fetchShirts, the grouped branch with availableSizes listing the size of
\* every variant
mapGroupedShirt_AllSizes(groupedShirt) ==
    LET type     == extractType(groupedShirt)
        variants == [k \in 1..Len(groupedShirt.variants) |->
                        LET variant == groupedShirt.variants[k]
                        IN  Shirt(variant._id, extractSize(variant), type,
                                  variant.stock, variant.price, variant.finalPrice)]
    IN  [id |-> groupedShirt._id, type |-> type,
         originalPrice |-> IF Len(variants) > 0 THEN variants[1].originalPrice ELSE 0,
         discountedPrice |-> IF Len(variants) > 0 THEN variants[1].discountedPrice ELSE 0,
         variants |-> variants,
         availableSizes |-> [k \in 1..Len(variants) |-> variants[k].size]]

\* fetchShirts, the grouped branch: the GroupedShirt of one grouped record
mapGroupedShirt(groupedShirt) ==
    LET type     == extractType(groupedShirt)
        variants == [k \in 1..Len(groupedShirt.variants) |->
                        LET variant == groupedShirt.variants[k]
                        IN  Shirt(variant._id, extractSize(variant), type,
                                  variant.stock, variant.price, variant.finalPrice)]
    IN  [id |-> groupedShirt._id, type |-> type,
         originalPrice |-> IF Len(variants) > 0 THEN variants[1].originalPrice ELSE 0,
         discountedPrice |-> IF Len(variants) > 0 THEN variants[1].discountedPrice ELSE 0,
         variants |-> variants,
         availableSizes |-> groupedShirt.availableSizes]

\* a call made while a response is normalized: the function called and the
\* _id of the raw documents its argument is made of
Call(fn, ids) == [fn |-> fn, ids |-> ids]

IdsOf(list) == {list[k]._id : k \in 1..Len(list)}

RECURSIVE Flatten(_)
Flatten(seqs) == IF seqs = <<>> THEN <<>> ELSE Head(seqs) \o Flatten(Tail(seqs))

\* extractSize, its calls: console.warn('Could not extract size from:', ...)
\* before the fallback is returned
calls_extractSize(raw) ==
    <<Call("extractSize", {raw._id})>>
    \o (IF \/ raw.sizeReference.kind = "object" /\ raw.sizeReference.name # ""
           \/ raw.sizeRef.kind = "object" /\ raw.sizeRef.name # ""
           \/ raw.shirtSize.kind \in {"object", "string"} /\ raw.shirtSize.name # ""
           \/ raw.size # Undefined
        THEN <<>>
        ELSE <<Call("console.warn", {raw._id})>>)

\* extractType, its calls: the fallback is returned without any
calls_extractType(raw) == <<Call("extractType", {raw._id})>>

\* mapBackendShirtToShirt, its calls in order
calls_mapBackendShirtToShirt(backendShirt) ==
    <<Call("extractFromShirt", {backendShirt._id})>>
    \o calls_extractSize(backendShirt)
    \o calls_extractType(backendShirt)

\* fetchShirts, its calls in order: the forEach over the page, then the map
calls_fetchShirts(list, groupBy) ==
    [k \in 1..Len(list) |->
        IF "variants" \in DOMAIN list[k]
        THEN Call("extractFromGroupedShirt", {list[k]._id} \cup IdsOf(list[k].variants))
        ELSE Call("extractFromShirt", {list[k]._id})]
    \o Flatten([k \in 1..Len(list) |->
        IF groupBy = "design"
        THEN calls_extractType(list[k])
             \o Flatten([j \in 1..Len(list[k].variants) |->
                    calls_extractSize(list[k].variants[j])])
        ELSE calls_mapBackendShirtToShirt(list[k])])

\* fetchShirtVariantsByDesignId, its calls in order: extractType of the
\* design, then for each ShirtSize document extractSize and extractFromShirt
\* of { ...shirtSize, ...shirtDesign }
calls_fetchShirtVariantsByDesignId(shirtSizes, shirtDesign) ==
    calls_extractType(shirtDesign)
    \o Flatten([k \in 1..Len(shirtSizes) |->
        calls_extractSize(shirtSizes[k])
        \o <<Call("extractFromShirt", {shirtSizes[k]._id, shirtDesign._id})>>])

\* fetchShirtById, its calls in order
calls_fetchShirtById(firstVariant, shirtDesign) ==
    calls_extractSize(firstVariant)
    \o calls_extractType(shirtDesign)
    \o <<Call("extractFromShirt", {firstVariant._id, shirtDesign._id})>>

\* fetchShirts after response.json(): the cache, whether it threw, and
\* what it returned. backendData.shirts.forEach on a data object without
\* the list raises a TypeError.
fetchShirts(c, apiResponse, groupBy) ==
    IF apiResponse.success /\ apiResponse.data.kind # "undefined"
    THEN IF ~apiResponse.data.hasShirts
         THEN [cache |-> c, threw |-> TRUE, ret |-> NoReturn, calls |-> <<>>]
         ELSE LET list == apiResponse.data.shirts
              IN  [cache |-> recordPage(c, list),
                   threw |-> FALSE,
                   calls |-> calls_fetchShirts(list, groupBy),
                   ret   |-> Return("page",
                                IF groupBy = "design"
                                THEN [k \in 1..Len(list) |-> mapGroupedShirt(list[k])]
                                ELSE [k \in 1..Len(list) |->
                                        mapBackendShirtToShirt(list[k])],
                                NoResponse)]
    ELSE [cache |-> c, threw |-> FALSE, ret |-> Return("raw", <<>>, apiResponse),
          calls |-> <<>>]

\* a catalog call: its arguments, the response it got, its outcome
Fetch(o, groupBy, response, threw, ret, calls) ==
    [op |-> o, groupBy |-> groupBy, response |-> response, threw |-> threw,
     ret |-> ret, calls |-> calls]

NoFetch == Fetch("none", Undefined, NoResponse, FALSE, NoReturn, <<>>)

\* fetchShirts(filters, pagination, groupBy) answered by apiResponse
FetchShirts(apiResponse, groupBy) ==
    LET out == fetchShirts(cache, apiResponse, groupBy)
    IN  /\ cache' = out.cache
        /\ lastFetch' = Fetch("fetchShirts", groupBy, apiResponse, out.threw, out.ret,
                              out.calls)
        /\ UNCHANGED <<storeVars, viewVars, lastRef, watchVars>>

\* the shirtSizes lists answered to GET /shirts/:id
ShirtSizeLists ==
    {<<>>} \cup {<<RawSize("v1", "M", 4, pp[1], pp[2])>> : pp \in PricePairs}
           \cup {<<RawSize("v2", "M", 0, pp[1], pp[2]),
                   RawSize("v3", "L", 5, qq[1], qq[2])>> :
                      pp \in PricePairs, qq \in PricePairs}

\* fetchShirtVariantsByDesignId(shirtId) answered with success and a
\* shirtSizes list: an unsuccessful answer and an empty list throw
FetchShirtVariantsByDesignId(d, success, shirtSizes) ==
    LET threw == ~success \/ Len(shirtSizes) = 0
        resp  == ApiResponse(success, Data("object", TRUE, shirtSizes))
    IN  /\ cache' = IF threw THEN cache
                    ELSE recordVariants(cache, shirtSizes, ShirtDesign(d))
        /\ lastFetch' = Fetch("fetchShirtVariantsByDesignId", Undefined, resp, threw,
                              IF threw THEN NoReturn
                              ELSE Return("variants",
                                     [k \in 1..Len(shirtSizes) |->
                                        mapVariant(shirtSizes[k], ShirtDesign(d))],
                                     NoResponse),
                              IF threw THEN <<>>
                              ELSE calls_fetchShirtVariantsByDesignId(shirtSizes,
                                                                      ShirtDesign(d)))
        /\ UNCHANGED <<storeVars, viewVars, lastRef, watchVars>>

\* fetchShirtById(shirtId) answered with success and a shirtSizes list: the
\* first ShirtSize document under the design's id; an unsuccessful answer
\* and an empty list throw
FetchShirtById(d, success, shirtSizes) ==
    LET threw == ~success \/ Len(shirtSizes) = 0
        resp  == ApiResponse(success, Data("object", TRUE, shirtSizes))
        firstVariant == shirtSizes[1]
    IN  /\ cache' = IF threw THEN cache
                    ELSE extractFromShirt(cache, MergedRecord(firstVariant, ShirtDesign(d)))
        /\ lastFetch' = Fetch("fetchShirtById", Undefined, resp, threw,
                              IF threw THEN NoReturn
                              ELSE Return("shirt",
                                     <<Shirt(d, extractSize(firstVariant),
                                             extractType(ShirtDesign(d)),
                                             firstVariant.stock, firstVariant.price,
                                             firstVariant.finalPrice)>>,
                                     NoResponse),
                              IF threw THEN <<>>
                              ELSE calls_fetchShirtById(firstVariant, ShirtDesign(d)))
        /\ UNCHANGED <<storeVars, viewVars, lastRef, watchVars>>

(***************************************************************************)
(* Cart view                                                               *)
(***************************************************************************)
\* calculateTotalAmount(cart, shirts)
RECURSIVE calculateTotalAmount(_, _)
calculateTotalAmount(items, shirtList) ==
    IF items = <<>> THEN 0
    ELSE LET item == items[Len(items)]
             rest == calculateTotalAmount(SubSeq(items, 1, Len(items) - 1), shirtList)
         IN  IF \E k \in 1..Len(shirtList) : shirtList[k].id = item.shirtId
             THEN LET k == CHOOSE k \in 1..Len(shirtList) :
                              /\ shirtList[k].id = item.shirtId
                              /\ \A j \in 1..(k - 1) : shirtList[j].id # item.shirtId
                  IN  rest + shirtList[k].discountedPrice * item.quantity
             ELSE rest

\* availableShirts
availableShirts(cs, sh) == IF Len(cs) > 0 THEN cs ELSE sh

\* refreshCart: setCart({ ...getCart(), totalAmount })
refreshCart(st, avail) ==
    [items |-> getCart(st).items,
     totalAmount |-> calculateTotalAmount(getCart(st).items, avail)]

\* first index of a sequence satisfying Test, 0 when there is none
FirstIndex(seq, Test(_)) ==
    IF \E k \in 1..Len(seq) : Test(seq[k])
    THEN CHOOSE k \in 1..Len(seq) :
            Test(seq[k]) /\ \A j \in 1..(k - 1) : ~Test(seq[j])
    ELSE 0

\* the fallback of fetchCartShirts taken as variants[0], whatever the stock
SelectVariant_FirstOnly(item, variants) ==
    LET bySize == IF item.size # NoSize
                  THEN FirstIndex(variants, LAMBDA v : v.size = item.size)
                  ELSE 0
    IN  IF bySize # 0 THEN variants[bySize] ELSE variants[1]

\* fetchCartShirts, the variant chosen for one cart item; variants not empty
SelectVariant(item, variants) ==
    LET bySize  == IF item.size # NoSize
                   THEN FirstIndex(variants, LAMBDA v : v.size = item.size)
                   ELSE 0
        inStock == FirstIndex(variants, LAMBDA v : v.stock > 0)
    IN  IF bySize # 0 THEN variants[bySize]
        ELSE IF inStock # 0 THEN variants[inStock]
        ELSE variants[1]

\* fetchCartShirts, the variant of each item: NoShirt when the design's
\* variant list is empty
ResolveLines(lines, variantsOf) ==
    [i \in 1..Len(lines) |->
        IF Len(variantsOf[lines[i].shirtId]) > 0
        THEN SelectVariant(lines[i], variantsOf[lines[i].shirtId])
        ELSE NoShirt]

\* fetchCartShirts, the list built by the forEach: each chosen variant once
RECURSIVE BuildCartShirts(_)
BuildCartShirts(resolved) ==
    IF resolved = <<>> THEN <<>>
    ELSE LET before == BuildCartShirts(SubSeq(resolved, 1, Len(resolved) - 1))
             v      == resolved[Len(resolved)]
         IN  IF v = NoShirt \/ \E k \in 1..Len(before) : before[k].id = v.id
             THEN before
             ELSE Append(before, v)

\* [...new Set(items.map(item => item.shirtId))]: first occurrences, in order
RECURSIVE UniqueIds(_)
UniqueIds(lines) ==
    IF lines = <<>> THEN <<>>
    ELSE LET before == UniqueIds(SubSeq(lines, 1, Len(lines) - 1))
             d      == lines[Len(lines)].shirtId
         IN  IF \E k \in 1..Len(before) : before[k] = d THEN before
             ELSE Append(before, d)

\* what fetchCartShirts reads of an item: quantity is never read
LinesOf(items) ==
    [i \in 1..Len(items) |-> [shirtId |-> items[i].shirtId, size |-> items[i].size]]

Pending == [done |-> FALSE, ok |-> FALSE, variants |-> <<>>]

\* fetchCartShirts with designIds taken without the Set: one fetch for each
\* line of the cart
NewReconcile_PerLine(items) ==
    [lines     |-> LinesOf(items),
     designIds |-> [i \in 1..Len(items) |-> items[i].shirtId],
     results   |-> [d \in {items[k].shirtId : k \in 1..Len(items)} |-> Pending]]

\* a fetchCartShirts call past its synchronous part: designIds.map has
\* issued one fetchShirtVariantsByDesignId for each entry of designIds, and
\* the call waits in Promise.all
NewReconcile(items) ==
    [lines     |-> LinesOf(items),
     designIds |-> UniqueIds(LinesOf(items)),
     results   |-> LET designIds == UniqueIds(LinesOf(items))
                 IN  [d \in {designIds[k] : k \in 1..Len(designIds)} |-> Pending]]

NotApplied == [valid |-> FALSE, lines |-> <<>>, results |-> <<>>, resolved |-> <<>>]

\* getShirtByCartItem
getShirtByCartItem(item, avail) ==
    LET byId   == FirstIndex(avail, LAMBDA v : v.id = item.shirtId)
        bySize == IF item.size # NoSize
                  THEN FirstIndex(avail, LAMBDA v : v.size = item.size)
                  ELSE 0
    IN  IF byId # 0 THEN avail[byId]
        ELSE IF bySize # 0 THEN avail[bySize]
        ELSE IF Len(avail) > 0 THEN avail[1]
        ELSE NoShirt

\* a trigger handled by the watcher: the poll tick, or the event of a
\* listener with the key of a StorageEvent; n tells one trigger from the next
Trigger(kind, key, n) == [kind |-> kind, key |-> key, n |-> n]

NoTrigger == Trigger("none", Undefined, 0)

\* Cart is mounted with isOpen false: the poll effect returns before
\* setInterval
WatcherMounted == interval = FALSE /\ lastTrigger = NoTrigger

\* history: the watcher handles a trigger
Handled(kind, key) == lastTrigger' = Trigger(kind, key, 1 - lastTrigger.n)

\* the item rows with their buttons are rendered
RowsShown == isOpen /\ ~(loadingShirts /\ Len(cart.items) > 0)

\* fetchCartShirts working on the cart the view holds in its state
StartFetchCartShirts_HeldCart ==
    LET items == cart.items
    IN  IF Len(items) = 0
        THEN /\ cartShirts' = <<>>
             /\ UNCHANGED <<loadingShirts, inflight>>
        ELSE /\ Len(inflight) < MaxInflight
             /\ loadingShirts' = TRUE
             /\ inflight' = Append(inflight, NewReconcile(items))
             /\ UNCHANGED cartShirts

\* fetchCartShirts up to its await: the new cartShirts, loadingShirts, inflight
StartFetchCartShirts ==
    LET items == getCart(storage).items
    IN  IF Len(items) = 0
        THEN /\ cartShirts' = <<>>
             /\ UNCHANGED <<loadingShirts, inflight>>
        ELSE /\ Len(inflight) < MaxInflight
             /\ loadingShirts' = TRUE
             /\ inflight' = Append(inflight, NewReconcile(items))
             /\ UNCHANGED cartShirts

\* isOpen becomes true: the open effect calls fetchCartShirts, the
\* refreshCart effect runs, the poll effect arms the interval
OpenCart ==
    /\ ~isOpen
    /\ isOpen' = TRUE
    /\ StartFetchCartShirts
    /\ cart' = refreshCart(storage, availableShirts(cartShirts', shirts))
    /\ interval' = TRUE
    /\ UNCHANGED <<storeVars, refVars, apiVars, lastTrigger, backend, shirts, applied>>

\* onClose: isOpen becomes false, the refreshCart effect runs, the interval
\* is cleared
CloseCart ==
    /\ isOpen
    /\ isOpen' = FALSE
    /\ cart' = refreshCart(storage, availableShirts(cartShirts, shirts))
    /\ interval' = FALSE
    /\ UNCHANGED <<storeVars, refVars, apiVars, lastTrigger, backend, shirts, cartShirts,
                   loadingShirts, inflight, applied>>

\* the poll's change check
itemsChanged(items, cs) ==
    \/ Len(items) # Len(cs)
    \/ ~(\A i \in 1..Len(items) : \E k \in 1..Len(cs) : cs[k].id = items[i].shirtId)

\* one tick of the 500 ms interval, while it is armed
PollTick ==
    /\ interval
    /\ IF itemsChanged(getCart(storage).items, cartShirts)
       THEN StartFetchCartShirts
       ELSE UNCHANGED <<cartShirts, loadingShirts, inflight>>
    /\ cart' = refreshCart(storage, availableShirts(cartShirts', shirts))
    /\ UNCHANGED <<storeVars, refVars, apiVars, interval, backend, shirts, isOpen, applied>>

RemoveAt(seq, i) == SubSeq(seq, 1, i - 1) \o SubSeq(seq, i + 1, Len(seq))

\* a reconcile that prunes the persisted cart of the items it could not resolve
FetchComplete_Prune(i, d, ok) ==
    /\ i \in 1..Len(inflight)
    /\ d \in DOMAIN inflight[i].results
    /\ ~inflight[i].results[d].done
    /\ LET rec == [inflight[i] EXCEPT !.results[d] =
                     [done |-> TRUE, ok |-> ok,
                      variants |-> IF ok THEN fetchShirtVariantsByDesignId(backend, d)
                                   ELSE <<>>]]
       IN  IF \A e \in DOMAIN rec.results : rec.results[e].done
           THEN LET variantsOf == [e \in DOMAIN rec.results |-> rec.results[e].variants]
                    resolved   == ResolveLines(rec.lines, variantsOf)
                    newShirts  == BuildCartShirts(resolved)
                    kept       == SelectSeq(getCart(storage).items,
                                    LAMBDA it : it.shirtId \in DOMAIN variantsOf
                                                => Len(variantsOf[it.shirtId]) > 0)
                IN  /\ cartShirts' = newShirts
                    /\ loadingShirts' = FALSE
                    /\ inflight' = RemoveAt(inflight, i)
                    /\ storage' = saveCart([getCart(storage) EXCEPT !.items = kept])
                    /\ cart' = refreshCart(storage', availableShirts(newShirts, shirts))
           ELSE /\ inflight' = [inflight EXCEPT ![i] = rec]
                /\ UNCHANGED <<storage, cart, cartShirts, loadingShirts>>
    /\ cache' = IF ok THEN recordVariants(cache, backend[d], ShirtDesign(d)) ELSE cache
    /\ UNCHANGED <<lastOp, lastRef, apiVars, watchVars, backend, shirts, isOpen>>

\* a reconcile that lists the chosen variants in the order in which the
\* fetches completed: those of the design that completed last come last
FetchComplete_CompletionOrder(i, d, ok) ==
    /\ i \in 1..Len(inflight)
    /\ d \in DOMAIN inflight[i].results
    /\ ~inflight[i].results[d].done
    /\ LET rec == [inflight[i] EXCEPT !.results[d] =
                     [done |-> TRUE, ok |-> ok,
                      variants |-> IF ok THEN fetchShirtVariantsByDesignId(backend, d)
                                   ELSE <<>>]]
       IN  IF \A e \in DOMAIN rec.results : rec.results[e].done
           THEN LET variantsOf == [e \in DOMAIN rec.results |-> rec.results[e].variants]
                    earlier    == SelectSeq(rec.lines, LAMBDA l : l.shirtId # d)
                    latest     == SelectSeq(rec.lines, LAMBDA l : l.shirtId = d)
                    newShirts  == BuildCartShirts(
                                      ResolveLines(earlier \o latest, variantsOf))
                IN  /\ cartShirts' = newShirts
                    /\ loadingShirts' = FALSE
                    /\ inflight' = RemoveAt(inflight, i)
                    /\ cart' = IF newShirts = <<>> /\ cartShirts = <<>>
                               THEN cart
                               ELSE refreshCart(storage, availableShirts(newShirts, shirts))
           ELSE /\ inflight' = [inflight EXCEPT ![i] = rec]
                /\ UNCHANGED <<cart, cartShirts, loadingShirts>>
    /\ cache' = IF ok THEN recordVariants(cache, backend[d], ShirtDesign(d)) ELSE cache
    /\ UNCHANGED <<storeVars, lastRef, apiVars, watchVars, backend, shirts, isOpen>>

\* the fetch of design d issued by the i-th fetchCartShirts call in flight
\* completes: with the variants (ok) or by throwing, which the inner catch
\* turns into []. After the last one Promise.all resolves and the rest of
\* fetchCartShirts runs: setCartShirts, setLoadingShirts(false), and the
\* refreshCart effect when availableShirts is a new array.
FetchComplete(i, d, ok) ==
    /\ i \in 1..Len(inflight)
    /\ d \in DOMAIN inflight[i].results
    /\ ~inflight[i].results[d].done
    /\ LET rec == [inflight[i] EXCEPT !.results[d] =
                     [done |-> TRUE, ok |-> ok,
                      variants |-> IF ok THEN fetchShirtVariantsByDesignId(backend, d)
                                   ELSE <<>>]]
       IN  IF \A e \in DOMAIN rec.results : rec.results[e].done
           THEN LET variantsOf == [e \in DOMAIN rec.results |-> rec.results[e].variants]
                    resolved   == ResolveLines(rec.lines, variantsOf)
                    newShirts  == BuildCartShirts(resolved)
                IN  /\ cartShirts' = newShirts
                    /\ loadingShirts' = FALSE
                    /\ inflight' = RemoveAt(inflight, i)
                    /\ cart' = IF newShirts = <<>> /\ cartShirts = <<>>
                               THEN cart
                               ELSE refreshCart(storage, availableShirts(newShirts, shirts))
           ELSE /\ inflight' = [inflight EXCEPT ![i] = rec]
                /\ UNCHANGED <<cart, cartShirts, loadingShirts>>
    /\ cache' = IF ok THEN recordVariants(cache, backend[d], ShirtDesign(d)) ELSE cache
    /\ UNCHANGED <<storeVars, lastRef, apiVars, watchVars, backend, shirts, isOpen>>

\* history: the fetchCartShirts call that FetchComplete(i, d, ok) runs to its
\* end, with the variant it chose for each item
Record(i, d, ok) ==
    LET rec == [inflight[i] EXCEPT !.results[d] =
                  [done |-> TRUE, ok |-> ok,
                   variants |-> IF ok THEN fetchShirtVariantsByDesignId(backend, d)
                                ELSE <<>>]]
    IN  IF \A e \in DOMAIN rec.results : rec.results[e].done
        THEN applied' = [valid |-> TRUE, lines |-> rec.lines, results |-> rec.results,
                         resolved |-> ResolveLines(rec.lines,
                             [e \in DOMAIN rec.results |-> rec.results[e].variants])]
        ELSE UNCHANGED applied

\* history: as Record, with the design whose fetch completed last
RecordOrder(i, d, ok) ==
    LET rec == [inflight[i] EXCEPT !.results[d] =
                  [done |-> TRUE, ok |-> ok,
                   variants |-> IF ok THEN fetchShirtVariantsByDesignId(backend, d)
                                ELSE <<>>]]
    IN  IF \A e \in DOMAIN rec.results : rec.results[e].done
        THEN applied' = [valid |-> TRUE, lines |-> rec.lines, results |-> rec.results,
                         resolved |-> ResolveLines(rec.lines,
                             [e \in DOMAIN rec.results |-> rec.results[e].variants]),
                         last |-> d]
        ELSE UNCHANGED applied

WithinViewBound(c) ==
    \A i \in 1..Len(c.items) :
        c.items[i].quantity >= 1 /\ c.items[i].quantity <= MaxViewQty

\* handleRemoveItem of the k-th row
HandleRemoveItem(k) ==
    /\ RowsShown
    /\ k \in 1..Len(cart.items)
    /\ getShirtByCartItem(cart.items[k], availableShirts(cartShirts, shirts)) # NoShirt
    /\ storage' = saveCart(removeFromCart(storage, cart.items[k].shirtId))
    /\ cartShirts' = SelectSeq(cartShirts, LAMBDA v : v.id # cart.items[k].shirtId)
    /\ cart' = refreshCart(storage', availableShirts(cartShirts', shirts))
    /\ UNCHANGED <<lastOp, refVars, apiVars, watchVars, backend, shirts, isOpen, loadingShirts, inflight, applied>>

\* handleQuantityChange of the k-th row: the "-" (delta -1) or "+" button
HandleQuantityChange(k, delta) ==
    /\ RowsShown
    /\ k \in 1..Len(cart.items)
    /\ getShirtByCartItem(cart.items[k], availableShirts(cartShirts, shirts)) # NoShirt
    /\ LET after == updateCartItemQuantity(storage, cart.items[k].shirtId,
                                           cart.items[k].quantity + delta)
       IN  /\ WithinViewBound(after)
           /\ storage' = saveCart(after)
    /\ cart' = refreshCart(storage', availableShirts(cartShirts, shirts))
    /\ UNCHANGED <<lastOp, refVars, apiVars, watchVars, backend, shirts, isOpen, cartShirts, loadingShirts,
                   inflight, applied>>

\* handleAddToCart of the product page, whose button lies under the
\* overlay of the open cart
HandleAddToCart(d, s, q) ==
    /\ ~isOpen
    /\ LET after == addToCart(storage, d, q)
       IN  /\ WithinViewBound(after)
           /\ storage' = saveCart(after)
    /\ UNCHANGED <<lastOp, viewVars, refVars, apiVars, watchVars>>

(***************************************************************************)
(* Cart watcher: the listeners of the Cart component and the other tab     *)
(***************************************************************************)
CART_STORAGE_KEY == "shirt_ecommerce_cart"

\* the key of a StorageEvent: the cart's or another entry's
StorageKeys == {CART_STORAGE_KEY, "auth_token"}

\* a listener calls fetchCartShirts: the refreshCart effect runs when
\* availableShirts becomes another array
CallFetchCartShirts ==
    /\ StartFetchCartShirts
    /\ cart' = IF cartShirts' = cartShirts THEN cart
               ELSE refreshCart(storage, availableShirts(cartShirts', shirts))

\* handleCartUpdate: a 'cartUpdated' event reaches the window
HandleCartUpdate ==
    /\ IF isOpen THEN CallFetchCartShirts
       ELSE UNCHANGED <<cart, cartShirts, loadingShirts, inflight>>
    /\ Handled("cartUpdated", Undefined)
    /\ UNCHANGED <<storeVars, refVars, apiVars, interval, backend, shirts, isOpen, applied>>

\* the tab of the open view comes back to the foreground: a
\* 'visibilitychange' event reaches the document, for which Cart adds no
\* listener; no effect of Cart depends on the visibility of the document
VisibilityChange ==
    /\ isOpen
    /\ Handled("visibilitychange", Undefined)
    /\ UNCHANGED <<storeVars, viewVars, refVars, apiVars, interval>>

\* handleStorageChange without the test of isOpen
HandleStorageChange_Unguarded(key) ==
    /\ IF key = CART_STORAGE_KEY THEN CallFetchCartShirts
       ELSE UNCHANGED <<cart, cartShirts, loadingShirts, inflight>>
    /\ Handled("storage", key)
    /\ UNCHANGED <<storeVars, refVars, apiVars, interval, backend, shirts, isOpen, applied>>

\* handleStorageChange: a 'storage' event with e.key = key reaches the window
HandleStorageChange(key) ==
    /\ IF key = CART_STORAGE_KEY /\ isOpen THEN CallFetchCartShirts
       ELSE UNCHANGED <<cart, cartShirts, loadingShirts, inflight>>
    /\ Handled("storage", key)
    /\ UNCHANGED <<storeVars, refVars, apiVars, interval, backend, shirts, isOpen, applied>>

\* another tab over the same localStorage calls addToCart(d, q) on a cart
\* that does not hold d
OtherTabAddToCart(d, q) ==
    /\ HasItems(getCart(storage))
    /\ FindItem(getCart(storage).items, d) = 0
    /\ LET after == addToCart(storage, d, q)
       IN  /\ WithinViewBound(after)
           /\ storage' = saveCart(after)
    /\ UNCHANGED <<lastOp, viewVars, refVars, apiVars, watchVars>>

\* another tab over the same localStorage calls removeFromCart(d) on a
\* cart that holds d
OtherTabRemoveFromCart(d) ==
    /\ HasItems(getCart(storage))
    /\ FindItem(getCart(storage).items, d) # 0
    /\ storage' = saveCart(removeFromCart(storage, d))
    /\ UNCHANGED <<lastOp, viewVars, refVars, apiVars, watchVars>>

ViewMounted(st, be, sh) ==
    /\ backend = be
    /\ shirts = sh
    /\ isOpen = FALSE
    /\ cart = refreshCart(st, sh)
    /\ cartShirts = <<>>
    /\ loadingShirts = FALSE
    /\ inflight = <<>>
    /\ applied = NotApplied
    /\ CacheLoaded
    /\ lastFetch = NoFetch
    /\ WatcherMounted

\* the parent's list: not loaded yet, or the variants of the page's design
ParentLists(be) == {<<>>, fetchShirtVariantsByDesignId(be, "d1")}

NextStore ==
    \/ GetCart
    \/ \E d \in DesignIds, s \in SizeArgs, q \in QtyArgs : AddToCart(d, s, q)
    \/ \E d \in DesignIds : RemoveFromCart(d)
    \/ \E d \in DesignIds, q \in QtyArgs : UpdateCartItemQuantity(d, q)
    \/ ClearCart

InitStore ==
    /\ storage = Absent
    /\ lastOp = NoOp
    /\ ViewMounted(storage, CatalogA, <<>>)

\* the cart store alone, from an absent persisted cart
SpecStore == InitStore /\ [][NextStore]_vars

\* the cart store from any stored value, well-formed or not
InitCorrupt ==
    /\ storage \in {Absent, EmptyCart} \cup {Value(k, <<>>, 0) : k \in CorruptKinds}
    /\ lastOp = NoOp
    /\ backend = CatalogA
    /\ shirts = <<>>
    /\ isOpen = FALSE
    /\ cart = [items |-> <<>>, totalAmount |-> 0]
    /\ cartShirts = <<>>
    /\ loadingShirts = FALSE
    /\ inflight = <<>>
    /\ applied = NotApplied
    /\ CacheLoaded
    /\ lastFetch = NoFetch
    /\ WatcherMounted

SpecCorrupt == InitCorrupt /\ [][NextStore]_vars

\* the cart store over a storage whose setItem may throw
NextQuota ==
    \/ GetCart
    \/ \E d \in DesignIds, s \in SizeArgs, q \in QtyArgs, w \in BOOLEAN :
            AddToCartOn(d, s, q, w)
    \/ \E d \in DesignIds, w \in BOOLEAN : RemoveFromCartOn(d, w)
    \/ \E d \in DesignIds, q \in QtyArgs, w \in BOOLEAN :
            UpdateCartItemQuantityOn(d, q, w)
    \/ ClearCart

SpecQuota == InitStore /\ [][NextQuota]_vars

\* the reference cache alone
NextCache ==
    \/ \E shirt \in RawShirts : ExtractFromShirt(shirt)
    \/ \E groupedShirt \in RawGroupedShirts : ExtractFromGroupedShirt(groupedShirt)
    \/ \E size \in Sizes : GetSizeId(size)
    \/ \E type \in TypeNames : GetTypeId(type)
    \/ \E sizeId \in SizeRefIds : GetSizeName(sizeId)
    \/ \E typeId \in TypeIds : GetTypeName(typeId)
    \/ ClearCache

SpecCache == InitStore /\ [][NextCache]_vars

\* the catalog calls with the reference cache they fill
NextCatalog ==
    \/ \E groupBy \in {Undefined, "design"} :
            \E apiResponse \in Responses_fetchShirts(groupBy) :
                FetchShirts(apiResponse, groupBy)
    \/ \E d \in DesignIds, success \in BOOLEAN, shirtSizes \in ShirtSizeLists :
            FetchShirtVariantsByDesignId(d, success, shirtSizes)
    \/ \E d \in DesignIds, success \in BOOLEAN, shirtSizes \in ShirtSizeLists :
            FetchShirtById(d, success, shirtSizes)
    \/ ClearCache

SpecCatalog == InitStore /\ [][NextCatalog]_vars

\* fetchShirts over pages of one record that carries several size and
\* type fields
NextExtract ==
    \/ \E r \in MixedRecords :
            FetchShirts(ApiResponse(TRUE, Data("object", TRUE, <<r>>)), Undefined)
    \/ ClearCache

SpecExtract == InitStore /\ [][NextExtract]_vars

\* fetchShirts with groupBy=design over the pages the backend documents
NextGrouped ==
    \/ \E pg \in DocumentedPages :
            FetchShirts(ApiResponse(TRUE, Data("object", TRUE, pg)), "design")
    \/ ClearCache

SpecGrouped == InitStore /\ [][NextGrouped]_vars

(***************************************************************************)
(* The page with its cart: store calls made through the UI, the view, the  *)
(* fetches                                                                 *)
(***************************************************************************)
Init ==
    /\ storage = Absent
    /\ lastOp = NoOp
    /\ \E sh \in ParentLists(CatalogA) : ViewMounted(storage, CatalogA, sh)

Next ==
    \/ OpenCart
    \/ CloseCart
    \/ PollTick /\ UNCHANGED lastTrigger
    \/ \E i \in 1..MaxInflight, d \in DesignIds, ok \in BOOLEAN :
            FetchComplete(i, d, ok) /\ UNCHANGED applied
    \/ \E k \in 1..Cardinality(DesignIds) : HandleRemoveItem(k)
    \/ \E k \in 1..Cardinality(DesignIds), delta \in {0 - 1, 1} :
            HandleQuantityChange(k, delta)
    \/ \E d \in DesignIds, s \in Sizes, q \in 1..MaxViewQty : HandleAddToCart(d, s, q)

Spec == Init /\ [][Next]_vars

\* the cart view with its three triggers, and another tab writing the cart
NextWatch ==
    \/ OpenCart
    \/ CloseCart
    \/ PollTick /\ Handled("poll", Undefined)
    \/ \E i \in 1..MaxInflight, d \in DesignIds :
            FetchComplete(i, d, TRUE) /\ UNCHANGED applied
    \/ HandleCartUpdate
    \/ \E key \in StorageKeys : HandleStorageChange(key)
    \/ \E d \in DesignIds : OtherTabAddToCart(d, 1)
    \/ \E d \in DesignIds : OtherTabRemoveFromCart(d)
    \/ VisibilityChange

SpecWatch == InitStore /\ [][NextWatch]_vars

\* the lines a CartItem can hold, at the least and the greatest quantity
TypedLines ==
    {CartItem(d, s, q) : d \in DesignIds, s \in SizeArgs, q \in {1, MaxViewQty}}

\* no line, one line, or two lines of different (shirtId, size) pairs
TypedCarts ==
    {<<>>} \cup {<<a>> : a \in TypedLines}
           \cup {<<p[1], p[2]>> : p \in {q \in TypedLines \X TypedLines :
                        q[1].shirtId # q[2].shirtId \/ q[1].size # q[2].size}}

\* the carts among them that addToCart writes: no line carries a size
StoredCarts ==
    {its \in TypedCarts : \A i \in 1..Len(its) : its[i].size = NoSize}

\* the view over a fixed persisted cart written by the cart store
InitReconcile ==
    /\ storage \in {Value("cart", its, 0) : its \in StoredCarts}
    /\ lastOp = NoOp
    /\ \E be \in Catalogs : \E sh \in ParentLists(be) : ViewMounted(storage, be, sh)

\* the view over a fixed persisted cart of any CartItem shape
InitTyped ==
    /\ storage \in {Value("cart", its, 0) : its \in TypedCarts}
    /\ lastOp = NoOp
    /\ \E be \in Catalogs : \E sh \in ParentLists(be) : ViewMounted(storage, be, sh)

NextReconcile ==
    \/ OpenCart
    \/ CloseCart
    \/ PollTick /\ UNCHANGED lastTrigger
    \/ \E i \in 1..MaxInflight, d \in DesignIds, ok \in BOOLEAN :
            FetchComplete(i, d, ok) /\ Record(i, d, ok)

SpecReconcile == InitReconcile /\ [][NextReconcile]_vars

SpecTyped == InitTyped /\ [][NextReconcile]_vars

\* the Remove button of the k-th row, as far as the cart store goes:
\* handleRemoveItem(item.shirtId) calls removeFromCart(item.shirtId); the
\* row is the one of the pair (item.shirtId, item.size)
RemoveRow(k) ==
    /\ k \in 1..Len(getCart(storage).items)
    /\ LET item == getCart(storage).items[k]
           c    == removeFromCart(storage, item.shirtId)
       IN  /\ storage' = saveCart(c)
           /\ lastOp' = Op("remove", item.shirtId, item.size, 0, FALSE,
                           getCart(storage), c)
    /\ UNCHANGED <<viewVars, refVars, apiVars, watchVars>>

\* the cart store over a persisted cart of any CartItem shape
InitTypedStore ==
    /\ storage \in {Value("cart", its, 0) : its \in TypedCarts}
    /\ lastOp = NoOp
    /\ ViewMounted(storage, CatalogA, <<>>)

NextTypedStore ==
    \/ GetCart
    \/ \E k \in 1..Cardinality(DesignIds) : RemoveRow(k)
    \/ ClearCart

SpecTypedStore == InitTypedStore /\ [][NextTypedStore]_vars

\* the view over a fixed persisted cart, the completion order recorded
NextOrder ==
    \/ OpenCart
    \/ CloseCart
    \/ PollTick /\ UNCHANGED lastTrigger
    \/ \E i \in 1..MaxInflight, d \in DesignIds, ok \in BOOLEAN :
            FetchComplete(i, d, ok) /\ RecordOrder(i, d, ok)

SpecOrder == InitReconcile /\ [][NextOrder]_vars

\* the open view over a cart that is changed without a notification a
\* finite number of times (a Remove button of the view, another tab whose
\* storage event is not awaited), the backend answering every fetch
PollTickLive == PollTick /\ UNCHANGED lastTrigger

FetchCompleteLive ==
    \E i \in 1..MaxInflight, d \in DesignIds :
        FetchComplete(i, d, TRUE) /\ UNCHANGED applied

NextLive ==
    \/ OpenCart
    \/ PollTickLive
    \/ FetchCompleteLive
    \/ \E k \in 1..Cardinality(DesignIds) : HandleRemoveItem(k)
    \/ \E d \in DesignIds : OtherTabRemoveFromCart(d)

\* setInterval keeps ticking while armed, and every fetch is answered
InitLive ==
    /\ storage \in {Value("cart", its, 0) : its \in StoredCarts}
    /\ lastOp = NoOp
    /\ \E be \in Catalogs : ViewMounted(storage, be, <<>>)

SpecLive ==
    /\ InitLive
    /\ [][NextLive]_vars
    /\ WF_vars(PollTickLive)
    /\ WF_vars(FetchCompleteLive)

(***************************************************************************)
(* Properties of the cart store                                            *)
(***************************************************************************)
\* the lines of the cart returned by get()
Lines == getCart(storage).items

HasLine(items, d, s) ==
    \E i \in 1..Len(items) : items[i].shirtId = d /\ items[i].size = s

\* the items of a sequence that are not for design d, in order
OtherLines(items, d) == SelectSeq(items, LAMBDA it : it.shirtId # d)

\* C1: from an absent persisted cart, after any sequence of add,
\* setQuantity, remove and clear calls, the cart returned by get() never
\* holds two lines with the same (designId, sizeName) pair.
C1_LineUniqueness ==
    \A i, j \in 1..Len(Lines) :
        (Lines[i].shirtId = Lines[j].shirtId /\ Lines[i].size = Lines[j].size)
            => i = j

\* an add was merged into an existing line while another line is held
C1_Witness ==
    /\ lastOp.op = "add"
    /\ HasLine(lastOp.before.items, lastOp.shirtId, NoSize)
    /\ Len(Lines) = 2

C4_AddAppendKeepsSize ==
    (/\ lastOp.op = "add"
     /\ ~lastOp.threw
     /\ ~HasLine(lastOp.before.items, lastOp.shirtId, lastOp.size))
    => Lines = Append(lastOp.before.items,
                      CartItem(lastOp.shirtId, lastOp.size, lastOp.quantity))

C6_QuantityInvariant ==
    \A i \in 1..Len(Lines) : Lines[i].quantity >= 1

\* C7: for every stored value that is not a well-formed cart, get() does
\* not throw and returns the empty cart, and a following add, remove or
\* setQuantity does not throw.
C7_CorruptRecovery ==
    /\ ~lastOp.threw
    /\ (lastOp.op = "get" /\ storage.kind # "cart") => lastOp.ret = EmptyCart

(***************************************************************************)
(* Properties of the reconciliation                                        *)
(***************************************************************************)
\* sum of finalPrice x quantity over the items that have a resolved variant
RECURSIVE ResolvedTotal(_, _)
ResolvedTotal(items, resolved) ==
    IF items = <<>> THEN 0
    ELSE LET n == Len(items)
         IN  ResolvedTotal(SubSeq(items, 1, n - 1), SubSeq(resolved, 1, n - 1))
             + (IF resolved[n] = NoShirt THEN 0
                ELSE resolved[n].discountedPrice * items[n].quantity)

\* the variant the tie-break order (a) size match, (b) first in stock,
\* (c) first names for a line and a non-empty variant set
Least(S) == CHOOSE k \in S : \A j \in S : k <= j

OrderedChoice(line, vs) ==
    LET sized   == {k \in 1..Len(vs) : line.size # NoSize /\ vs[k].size = line.size}
        stocked == {k \in 1..Len(vs) : vs[k].stock > 0}
    IN  IF sized # {} THEN vs[Least(sized)]
        ELSE IF stocked # {} THEN vs[Least(stocked)]
        ELSE vs[1]

\* C2: the displayed totalAmount is the sum, over the cart lines with a
\* resolved variant, of that variant's finalPrice times the line's
\* quantity; unresolved lines contribute zero.
C2_ReconciliationTotal ==
    (applied.valid /\ applied.lines = LinesOf(cart.items))
    => cart.totalAmount = ResolvedTotal(cart.items, applied.resolved)

C9_PartialFailureIsolation ==
    (/\ applied.valid
     /\ applied.lines = LinesOf(cart.items)
     /\ RowsShown
     /\ \E d \in DOMAIN applied.results : ~applied.results[d].ok
     /\ \E d \in DOMAIN applied.results : applied.results[d].ok)
    => /\ \A i \in 1..Len(cart.items) :
            getShirtByCartItem(cart.items[i], availableShirts(cartShirts, shirts))
                = IF applied.results[cart.items[i].shirtId].ok
                  THEN applied.resolved[i]
                  ELSE NoShirt
       /\ cart.totalAmount = ResolvedTotal(cart.items, applied.resolved)

\* C10: no step of a reconcile (its start, the completion of one of its
\* fetches, the application of its result) writes the persisted cart.
C10_ReconcileReadOnly == [][inflight' # inflight => storage' = storage]_vars

\* a reconcile with a failed fetch is still in flight after the view was
\* closed, over a persisted cart of two lines
C10_Witness ==
    /\ ~isOpen
    /\ Len(getCart(storage).items) = 2
    /\ \E i \in 1..Len(inflight) : \E d \in DOMAIN inflight[i].results :
            inflight[i].results[d].done /\ ~inflight[i].results[d].ok

\* the responses of one reconcile: per design, the variants the backend
\* holds when the fetch succeeded, nothing when it failed
Responses(results) ==
    [e \in DOMAIN results |->
        IF results[e].ok THEN fetchShirtVariantsByDesignId(backend, e) ELSE <<>>]

\* C11: for a fixed cart and fixed backend responses, the resolved variant
\* of each line and the ordered list of resolved variants are a function of
\* the cart and the responses alone: they are the same whichever of the
\* concurrently issued per-design fetches completes last.
C11_OrderIndependence ==
    applied.valid =>
        LET expected == ResolveLines(applied.lines, Responses(applied.results))
        IN  /\ applied.resolved = expected
            /\ cartShirts = BuildCartShirts(expected)

\* two fetches both succeeded, the one issued first completed last, and
\* the two chosen variants are listed
C11_Witness ==
    /\ applied.valid
    /\ Len(applied.lines) = 2
    /\ applied.last = applied.lines[1].shirtId
    /\ \A d \in DOMAIN applied.results : applied.results[d].ok
    /\ Len(cartShirts) = 2

\* C12: immediately after add, remove or setQuantity returns, the cart read
\* back by get() equals the cart the mutation returned (same lines, same
\* quantities, same order), also when the storage write fails.
C12_PersistOnMutation ==
    (lastOp.op \in {"add", "remove", "setQuantity"} /\ ~lastOp.threw)
    => getCart(storage).items = lastOp.ret.items

Recorded(ref) == ref.op \in {"extractFromShirt", "extractFromGroupedShirt"}

\* what the four resolvers answer, for every name and id
Resolves(c) ==
    [sizeId   |-> [n \in Sizes |-> getSizeId(c, n)],
     typeId   |-> [n \in TypeNames |-> getTypeId(c, n)],
     sizeName |-> [i \in SizeRefIds |-> getSizeName(c, i)],
     typeName |-> [i \in TypeIds |-> getTypeName(c, i)]]

\* C14: recording a raw record a second time (extractFromShirt,
\* extractFromGroupedShirt) leaves the cache as the first recording left
\* it, and so every resolveId and resolveName result.
C14_IdempotentRecording ==
    [][(Recorded(lastRef') /\ lastRef'.again)
        => (cache' = cache /\ Resolves(cache') = Resolves(cache))]_vars

\* a record with a populated size and a populated type, whose type name
\* was known under another id before, was recorded twice in a row
C14_Witness ==
    /\ lastRef.op = "extractFromShirt"
    /\ lastRef.again
    /\ lastRef.shirt.sizeRef.kind = "object"
    /\ lastRef.shirt.shirtType = Populated("t2", "Casual")
    /\ getTypeId(cache, "Casual") = "t2"
    /\ getTypeName(cache, "t1") = "Casual"

\* C15: between two clear() calls, once a name resolves to an identifier
\* it resolves to the same identifier ever after, whatever is recorded
\* later, a record with the same name and another identifier included.
C15_StableNameToId ==
    [][lastRef'.op # "clear" =>
        /\ \A n \in Sizes :
              getSizeId(cache, n) # Null => getSizeId(cache', n) = getSizeId(cache, n)
        /\ \A n \in TypeNames :
              getTypeId(cache, n) # Null => getTypeId(cache', n) = getTypeId(cache, n)]_vars

\* a raw record with reference identifiers only: no populated object, no name
Unpopulated(v) ==
    /\ v.shirtType.kind # "object"
    /\ v.type = Undefined
    /\ v.shirtTypeId # Undefined \/ v.shirtType.kind = "string"

UnpopulatedSize(v) ==
    /\ v.sizeRef.kind = "undefined"
    /\ v.sizeReference.kind = "undefined"

\* C16: recording a raw record that carries only reference identifiers
\* (sizeReferenceId, shirtTypeId), no populated reference object and no
\* name, leaves all four cache maps unchanged.
C16_UnpopulatedNoOp ==
    [][/\ (/\ lastRef'.op = "extractFromShirt"
           /\ Unpopulated(lastRef'.shirt)
           /\ UnpopulatedSize(lastRef'.shirt)) => cache' = cache
       /\ (/\ lastRef'.op = "extractFromGroupedShirt"
           /\ Unpopulated(lastRef'.grouped)
           /\ \A k \in 1..Len(lastRef'.grouped.variants) :
                 UnpopulatedSize(lastRef'.grouped.variants[k])) => cache' = cache]_vars

\* a record with sizeReferenceId and shirtTypeId only was recorded into a
\* cache that holds sizes and types
C16_Witness ==
    /\ lastRef.op = "extractFromShirt"
    /\ lastRef.shirt = BackendShirt(NoRef, NoRef, "s1", NoRef, Undefined, "t1")
    /\ getSizeId(cache, "M") # Null
    /\ getTypeId(cache, "Casual") # Null

\* C17: without clear() no cache entry is ever removed: a resolveId or
\* resolveName that answers stays answered; after clear() every resolveId
\* and resolveName answers absent.
C17_MonotonicCache ==
    [][/\ lastRef'.op # "clear" =>
            /\ \A n \in Sizes : getSizeId(cache, n) # Null => getSizeId(cache', n) # Null
            /\ \A n \in TypeNames : getTypeId(cache, n) # Null => getTypeId(cache', n) # Null
            /\ \A i \in SizeRefIds :
                  getSizeName(cache, i) # Null => getSizeName(cache', i) # Null
            /\ \A i \in TypeIds :
                  getTypeName(cache, i) # Null => getTypeName(cache', i) # Null
       /\ lastRef'.op = "clear" => Resolves(cache') = Resolves(EmptyCache)]_vars

\* a name was recorded under a second id and the object of the first id
\* still resolves: all four resolvers answer
C17_Witness ==
    /\ Recorded(lastRef)
    /\ getTypeId(cache, "Casual") = "t2"
    /\ getTypeName(cache, "t1") = "Casual"
    /\ getSizeId(cache, "M") = "s2"
    /\ getSizeName(cache, "s1") = "M"

(***************************************************************************)
(* Properties of the catalog normalizer                                    *)
(***************************************************************************)
\* the Variants the last catalog call returned: the Shirts of a flat page
\* or of a variant list, the variants of the designs of a grouped page
VariantsReturned ==
    LET ret == lastFetch.ret
    IN  IF ret.kind = "page" /\ lastFetch.groupBy = "design"
        THEN UNION {{ret.data[k].variants[j] : j \in 1..Len(ret.data[k].variants)} :
                        k \in 1..Len(ret.data)}
        ELSE IF ret.kind \in {"page", "variants"}
        THEN {ret.data[k] : k \in 1..Len(ret.data)}
        ELSE {}

\* C18: every Variant the normalizer produces (mapBackendShirtToShirt, the
\* grouped and the flat branch of fetchShirts, fetchShirtVariantsByDesignId)
\* has 0 <= discountedPrice <= originalPrice, for every raw record the
\* backend can send.
C18_PriceMonotonicity ==
    \A v \in VariantsReturned :
        0 <= v.discountedPrice /\ v.discountedPrice <= v.originalPrice

\* a flat page was mapped whose first Shirt is discounted to 0 and whose
\* second Shirt is discounted by 15 percent
C18_Witness ==
    /\ lastFetch.op = "fetchShirts"
    /\ lastFetch.groupBy = Undefined
    /\ lastFetch.ret.kind = "page"
    /\ Len(lastFetch.ret.data) = 2
    /\ lastFetch.ret.data[1].discountedPrice = 0
    /\ lastFetch.ret.data[1].originalPrice = 200
    /\ lastFetch.ret.data[2].discountedPrice = 170
    /\ lastFetch.ret.data[2].originalPrice = 200

\* C19: for every raw grouped page, the availableSizes of each normalized
\* design is the availableSizes field of its backend record, same
\* elements in the same order, whatever the stock of its variants.
C19_AvailableSizesFidelity ==
    (/\ lastFetch.op = "fetchShirts"
     /\ lastFetch.groupBy = "design"
     /\ lastFetch.ret.kind = "page")
    => /\ Len(lastFetch.ret.data) = Len(lastFetch.response.data.shirts)
       /\ \A k \in 1..Len(lastFetch.ret.data) :
            lastFetch.ret.data[k].availableSizes
                = lastFetch.response.data.shirts[k].availableSizes

\* a grouped record listing L and M, in this order, while only its M
\* variant is in stock, was normalized
C19_Witness ==
    /\ lastFetch.op = "fetchShirts"
    /\ lastFetch.groupBy = "design"
    /\ lastFetch.ret.kind = "page"
    /\ Len(lastFetch.ret.data) = 1
    /\ lastFetch.ret.data[1].availableSizes = <<"L", "M">>
    /\ Len(lastFetch.ret.data[1].variants) = 2
    /\ lastFetch.ret.data[1].variants[1].size = "M"
    /\ lastFetch.ret.data[1].variants[1].stock > 0
    /\ lastFetch.ret.data[1].variants[2].size = "L"
    /\ lastFetch.ret.data[1].variants[2].stock = 0

\* C20: for an HTTP-successful catalog response whose success flag is
\* false, or which has no data field, or whose data field lacks the
\* shirts list, fetchShirts does not throw and returns the response
\* object unmodified.
C20_PassThrough ==
    (/\ lastFetch.op = "fetchShirts"
     /\ \/ ~lastFetch.response.success
        \/ lastFetch.response.data.kind = "undefined"
        \/ ~lastFetch.response.data.hasShirts)
    => /\ ~lastFetch.threw
       /\ lastFetch.ret.kind = "raw"
       /\ lastFetch.ret.response = lastFetch.response

(***************************************************************************)
(* Properties of the cart watcher                                          *)
(***************************************************************************)
\* the state fetchCartShirts writes up to its await
ReconcileState == <<cartShirts, loadingShirts, inflight>>

\* C21: while the view is closed a trigger (storage event, cartUpdated
\* event, poll tick) starts no fetchCartShirts, and the interval is not
\* armed while the view is closed
C21_WatcherConfined ==
    /\ [][lastTrigger' # lastTrigger /\ ~isOpen => ReconcileState' = ReconcileState]_vars
    /\ [](~isOpen => ~interval)

\* a listener has run while the view was closed after having been open,
\* over a cart with a line
C21_Witness ==
    /\ ~isOpen
    /\ lastTrigger.kind \in {"storage", "cartUpdated"}
    /\ lastTrigger.key \in {Undefined, CART_STORAGE_KEY}
    /\ Len(getCart(storage).items) > 0
    /\ cartShirts # <<>>

\* fetchCartShirts has been called in this step: a reconcile is in flight
\* for the persisted cart, or the cart is empty and cartShirts is emptied
ReconcileStarted ==
    IF getCart(storage').items = <<>>
    THEN cartShirts' = <<>>
    ELSE /\ Len(inflight') = Len(inflight) + 1
         /\ inflight'[Len(inflight')].lines = LinesOf(getCart(storage').items)

\* C22: a cart-store call that changes the persisted cart emits the
\* cartUpdated event, whose listener runs within the call (dispatchEvent is
\* synchronous): with the view open the call starts a reconcile
C22_InProcessNotification == [][storage' # storage /\ isOpen => ReconcileStarted]_vars

\* C23: a storage event for the cart key handled while the view is open
\* starts a reconcile of the cart as it is persisted at that moment; a
\* storage event for another key starts none
C23_CrossTabNotification ==
    [][lastTrigger' # lastTrigger /\ lastTrigger'.kind = "storage" /\ isOpen
        => IF lastTrigger'.key = CART_STORAGE_KEY
           THEN ReconcileStarted
           ELSE ReconcileState' = ReconcileState]_vars

\* the open view holds a cart older than the persisted one, and the
\* reconcile started by the storage event works on the persisted one
C23_Witness ==
    /\ isOpen
    /\ lastTrigger.kind = "storage"
    /\ lastTrigger.key = CART_STORAGE_KEY
    /\ cart.items # getCart(storage).items
    /\ Len(inflight) > 0
    /\ inflight[Len(inflight)].lines = LinesOf(getCart(storage).items)

\* the variant fetchCartShirts chooses for each line of the persisted cart
\* from the variant sets the backend holds
CurrentResolution ==
    ResolveLines(LinesOf(getCart(storage).items),
                 [d \in DesignIds |-> fetchShirtVariantsByDesignId(backend, d)])

\* the reconciled state is the one of the persisted cart
ReconciledCurrent ==
    /\ cart.items = getCart(storage).items
    /\ cartShirts = BuildCartShirts(CurrentResolution)

\* the view shows the rows of the persisted cart, each with the variant
\* resolved for it
ViewCurrent ==
    /\ RowsShown
    /\ cart.items = getCart(storage).items
    /\ \A k \in 1..Len(cart.items) :
            getShirtByCartItem(cart.items[k], availableShirts(cartShirts, shirts))
                = CurrentResolution[k]

\* C24: once the cart and the backend have stopped changing, the open view
\* comes to show the lines of the persisted cart, each resolved against the
\* current variant sets, and stays so
C24_PollConvergence == <>[](isOpen => ViewCurrent)

\* the reconciled list and the cart held by the open view do converge
ReconcileConverges == <>[](isOpen => ReconciledCurrent)

(***************************************************************************)
(* Properties of the normalizer's use of the reference cache               *)
(***************************************************************************)
RecordCalls  == {"extractFromShirt", "extractFromGroupedShirt"}
ExtractCalls == {"extractSize", "extractType"}

\* C25: in every normalizing path the record call for a raw document comes
\* before the extraction of the size or type of that document
C25_RecordBeforeExtraction ==
    LET calls == lastFetch.calls
    IN  \A k \in 1..Len(calls) :
            calls[k].fn \in ExtractCalls =>
                \A id \in calls[k].ids :
                    \E j \in 1..(k - 1) :
                        calls[j].fn \in RecordCalls /\ id \in calls[j].ids

\* the reference object a raw record is recorded with
PopulatedSizeOf(raw) ==
    IF raw.sizeRef.kind = "object" THEN raw.sizeRef ELSE raw.sizeReference

\* a raw record with the identifier of its size alone: no populated
\* reference, no legacy size string
SizeIdOnly(raw) ==
    /\ raw.sizeRef.kind # "object"
    /\ raw.sizeReference.kind # "object"
    /\ raw.shirtSize.kind = "undefined"
    /\ raw.size = Undefined
    /\ raw.sizeReferenceId # Undefined

\* C26: in a normalized page, a record that carries only the identifier of
\* its size gets the name that another record of the page carries,
\* populated, for that identifier
C26_CacheAssistedExtraction ==
    (lastFetch.op = "fetchShirts" /\ lastFetch.ret.kind = "page"
        /\ lastFetch.groupBy # "design") =>
        LET list == lastFetch.response.data.shirts
        IN  \A a \in 1..Len(list), b \in 1..Len(list) :
                (/\ PopulatedSizeOf(list[a]).kind = "object"
                 /\ SizeIdOnly(list[b])
                 /\ list[b].sizeReferenceId = PopulatedSizeOf(list[a])._id)
                => lastFetch.ret.data[b].size = PopulatedSizeOf(list[a]).name

\* the name a reference field carries, "" when it is absent or no object
NameOf(ref) == IF ref.kind = "object" THEN ref.name ELSE ""

\* the name a legacy field carries, object or flat string
LegacyNameOf(ref) == IF ref.kind \in {"object", "string"} THEN ref.name ELSE ""

\* the first of the candidates that is a name, else the fallback
PriorityPick(candidates, fallback) ==
    IF \E k \in 1..Len(candidates) : candidates[k] # ""
    THEN candidates[CHOOSE k \in 1..Len(candidates) :
                        /\ candidates[k] # ""
                        /\ \A j \in 1..(k - 1) : candidates[j] = ""]
    ELSE fallback

\* the fields of a raw record that may carry its size name, in the order
\* of priority; sizeReference is the field looked at first
SizeCandidates(raw) ==
    <<NameOf(raw.sizeReference), NameOf(raw.sizeRef), LegacyNameOf(raw.shirtSize),
      IF raw.size = Undefined THEN "" ELSE raw.size>>

TypeCandidates(raw) ==
    <<NameOf(raw.shirtType), LegacyNameOf(raw.shirtType),
      IF raw.type = Undefined THEN "" ELSE raw.type>>

CarriesType(raw) ==
    \/ raw.shirtType.kind = "object"
    \/ raw.shirtType.kind = "undefined" /\ raw.type # Undefined
                                        /\ raw.shirtTypeId # Undefined
TypeIdOf(raw)   == IF raw.shirtType.kind = "object" THEN raw.shirtType._id
                   ELSE raw.shirtTypeId
TypeNameOf(raw) == IF raw.shirtType.kind = "object" THEN raw.shirtType.name
                   ELSE raw.type

\* C28: right after a raw record that carries an identifier and a name of
\* a kind is recorded, the name resolves to the identifier and the
\* identifier to the name; and every name that resolves to an identifier is
\* the name that identifier resolves to
C28_BothDirections ==
    /\ lastRef.op = "extractFromShirt" =>
        LET raw == lastRef.shirt
        IN  /\ PopulatedSizeOf(raw).kind = "object" =>
                /\ getSizeId(cache, PopulatedSizeOf(raw).name) = PopulatedSizeOf(raw)._id
                /\ getSizeName(cache, PopulatedSizeOf(raw)._id) = PopulatedSizeOf(raw).name
            /\ CarriesType(raw) =>
                /\ getTypeId(cache, TypeNameOf(raw)) = TypeIdOf(raw)
                /\ getTypeName(cache, TypeIdOf(raw)) = TypeNameOf(raw)
    /\ \A n \in Sizes :
            getSizeId(cache, n) # Null => getSizeName(cache, getSizeId(cache, n)) = n
    /\ \A n \in TypeNames :
            getTypeId(cache, n) # Null => getTypeName(cache, getTypeId(cache, n)) = n

(***************************************************************************)
(* Properties of one reconcile pass                                        *)
(***************************************************************************)
\* the pairs of lines of the applied reconcile that resolved to one variant
SameVariantLines ==
    {p \in (1..Len(applied.resolved)) \X (1..Len(applied.resolved)) :
        /\ p[1] < p[2]
        /\ applied.resolved[p[1]] # NoShirt
        /\ applied.resolved[p[2]] # NoShirt
        /\ applied.resolved[p[1]].id = applied.resolved[p[2]].id}

PersistedDesigns ==
    {getCart(storage).items[k].shirtId : k \in 1..Len(getCart(storage).items)}

\* the fetches a reconcile has issued, and those among them not yet answered
Issued(rec)      == rec.designIds
Unanswered(rec)  == {k \in 1..Len(rec.designIds) : ~rec.results[rec.designIds[k]].done}

\* C30: a reconcile issues one variant-set fetch for each distinct design id
\* of the cart and never two for one design id, none for an empty cart, and
\* when it starts to wait all of them are issued and none is answered
C30_OneFetchPerDesign ==
    /\ [][(~isOpen /\ isOpen') =>
            IF Len(getCart(storage).items) = 0
            THEN inflight' = inflight
            ELSE /\ Len(inflight') = Len(inflight) + 1
                 /\ LET rec == inflight'[Len(inflight')]
                    IN  /\ {Issued(rec)[k] : k \in 1..Len(Issued(rec))} = PersistedDesigns
                        /\ Len(Issued(rec)) = Cardinality(PersistedDesigns)
                        /\ Unanswered(rec) = 1..Len(Issued(rec))]_vars
    /\ [](\A i \in 1..Len(inflight) :
            \A j, k \in 1..Len(Issued(inflight[i])) :
                Issued(inflight[i])[j] = Issued(inflight[i])[k] => j = k)

\* a reconcile over two lines of one design waits for its single fetch
C30_Witness ==
    \E i \in 1..Len(inflight) :
        /\ Len(inflight[i].lines) = 2
        /\ inflight[i].lines[1].shirtId = inflight[i].lines[2].shirtId
        /\ Len(Issued(inflight[i])) = 1
        /\ Unanswered(inflight[i]) = {1}

(***************************************************************************)
(* Properties of the normalized designs                                    *)
(***************************************************************************)
\* a grouped page was normalized
GroupedReturned ==
    /\ lastFetch.op = "fetchShirts"
    /\ lastFetch.groupBy = "design"
    /\ lastFetch.ret.kind = "page"

C32_RepresentativePrice ==
    GroupedReturned =>
        \A k \in 1..Len(lastFetch.ret.data) :
            LET design == lastFetch.ret.data[k]
                raw    == lastFetch.response.data.shirts[k]
            IN  IF Len(raw.variants) > 0
                THEN /\ design.originalPrice = raw.variants[1].price
                     /\ design.discountedPrice = raw.variants[1].finalPrice
                ELSE /\ design.originalPrice = 0
                     /\ design.discountedPrice = 0

\* a design whose first variant costs more than its second was normalized
C32_Witness ==
    /\ GroupedReturned
    /\ Len(lastFetch.ret.data) = 1
    /\ Len(lastFetch.response.data.shirts[1].variants) = 2
    /\ lastFetch.response.data.shirts[1].variants[1].finalPrice = 170
    /\ lastFetch.response.data.shirts[1].variants[2].finalPrice = 0
    /\ lastFetch.ret.data[1].discountedPrice = 170
    /\ lastFetch.ret.data[1].originalPrice = 200

(***************************************************************************)
(* Properties of the normalizer's fallbacks                                *)
(***************************************************************************)
\* a raw record without any of the fields the size, the type is read from
NoSizeField(raw) ==
    /\ raw.sizeReference.kind = "undefined"
    /\ raw.sizeRef.kind = "undefined"
    /\ raw.shirtSize.kind = "undefined"
    /\ raw.size = Undefined

NoTypeField(raw) == raw.shirtType.kind = "undefined" /\ raw.type = Undefined

\* the diagnostics logged for a raw record while the page was normalized
Diagnostics(raw) ==
    Cardinality({k \in 1..Len(lastFetch.calls) :
                    /\ lastFetch.calls[k].fn = "console.warn"
                    /\ raw._id \in lastFetch.calls[k].ids})

\* C33: normalizing a page does not throw; a record without size field
\* gets the size 'M', one without type field the type 'Casual', and one
\* diagnostic is logged for each of the two attributes that fell back
C33_MalformedRecord ==
    (/\ lastFetch.op = "fetchShirts"
     /\ lastFetch.groupBy # "design"
     /\ lastFetch.response.success
     /\ lastFetch.response.data.kind = "object"
     /\ lastFetch.response.data.hasShirts)
    => /\ ~lastFetch.threw
       /\ lastFetch.ret.kind = "page"
       /\ Len(lastFetch.ret.data) = Len(lastFetch.response.data.shirts)
       /\ \A k \in 1..Len(lastFetch.ret.data) :
            LET raw == lastFetch.response.data.shirts[k]
            IN  /\ NoSizeField(raw) => lastFetch.ret.data[k].size = "M"
                /\ NoTypeField(raw) => lastFetch.ret.data[k].type = "Casual"
                /\ Diagnostics(raw) = (IF NoSizeField(raw) THEN 1 ELSE 0)
                                      + (IF NoTypeField(raw) THEN 1 ELSE 0)

(***************************************************************************)
(* Properties of the view's triggers                                       *)
(***************************************************************************)
\* C34: when the view is opened after having been closed, and when the
\* open view comes back to the foreground, a reconcile is started
C34_VisibilityTrigger ==
    [][(\/ ~isOpen /\ isOpen'
        \/ isOpen /\ isOpen' /\ lastTrigger' # lastTrigger
                  /\ lastTrigger'.kind = "visibilitychange")
       => ReconcileStarted]_vars

(***************************************************************************)
(* Properties of the persisted value                                       *)
(***************************************************************************)
\* the fields of the object persisted under the cart key, and of its items
PersistedFields == IF storage.kind = "cart" THEN DOMAIN storage \ {"kind"} ELSE {}

\* C35: the persisted cart holds its lines and nothing else, no totalAmount
\* among its fields; the total the view holds is the one computed from the
\* shirts the view has at hand
C35_NoPersistedTotal ==
    /\ storage.kind = "cart" => PersistedFields = {"items"}
    /\ cart.totalAmount
            = calculateTotalAmount(cart.items, availableShirts(cartShirts, shirts))

\* the quantity a list of lines holds for the pair (designId, sizeName)
RECURSIVE QuantityOf(_, _, _)
QuantityOf(items, d, sz) ==
    IF items = <<>> THEN 0
    ELSE QuantityOf(Tail(items), d, sz)
         + (IF Head(items).shirtId = d /\ Head(items).size = sz
            THEN Head(items).quantity ELSE 0)

\* C36: the tabs share the persisted cart and hold no other state of the
\* store, so their add calls interleave as the add calls of the store do;
\* each add leaves, for every pair (designId, sizeName), the quantity
\* persisted before the call plus the quantity it adds to that pair: no
\* quantity added before is lost, and the persisted cart holds the sums
C36_NoLostUpdate ==
    (lastOp.op = "add" /\ ~lastOp.threw) =>
        \A d \in DesignIds, sz \in SizeArgs :
            QuantityOf(Lines, d, sz)
                = QuantityOf(lastOp.before.items, d, sz)
                  + (IF d = lastOp.shirtId /\ sz = lastOp.size
                     THEN lastOp.quantity ELSE 0)

(***************************************************************************)
(* Properties of the poll and of the rows                                  *)
(***************************************************************************)
\* the view is open on a cart that is not empty, the last reconcile was
\* made for the persisted cart, every fetch of it succeeded and every line
\* got a variant, and no fetch is in flight
Reconciled ==
    /\ isOpen
    /\ Len(getCart(storage).items) > 0
    /\ inflight = <<>>
    /\ applied.valid
    /\ applied.lines = LinesOf(getCart(storage).items)
    /\ \A d \in DOMAIN applied.results : applied.results[d].ok
    /\ \A i \in 1..Len(applied.resolved) : applied.resolved[i] # NoShirt
    /\ cartShirts = BuildCartShirts(applied.resolved)

\* C37: once the open view is reconciled with the persisted cart, the
\* poll's change check reports no change, and a step that leaves the view
\* open issues no fetch
C37_WatcherQuiescence ==
    /\ [](Reconciled => ~itemsChanged(getCart(storage).items, cartShirts))
    /\ [][Reconciled /\ isOpen' => inflight' = inflight]_vars

\* the ids of the ShirtSize documents of a design
VariantIdsOf(d) == {backend[d][k]._id : k \in 1..Len(backend[d])}

\* C38: while the rows are shown, the shirt a row is rendered with is none
\* (the row is not rendered) or a variant of the design of the row's line
C38_NoCrossDesignDisplay ==
    RowsShown =>
        \A k \in 1..Len(cart.items) :
            LET shirt == getShirtByCartItem(cart.items[k],
                                            availableShirts(cartShirts, shirts))
            IN  shirt = NoShirt \/ shirt.id \in VariantIdsOf(cart.items[k].shirtId)

(***************************************************************************)
(* Properties of the normalizer and the reference cache together           *)
(***************************************************************************)
\* the reference object extractSize takes the name of a raw record from
NameSourceOf(raw) ==
    IF raw.sizeReference.kind = "object" /\ raw.sizeReference.name # ""
    THEN raw.sizeReference
    ELSE raw.sizeRef

\* C39: when a page of raw records has been normalized, the size of the
\* Shirt made of a record with a populated size reference resolves, in the
\* reference cache, to the identifier of the reference object the name
\* was taken from
C39_NormalizerCacheAgree ==
    [][(/\ lastFetch' # lastFetch
        /\ lastFetch'.op = "fetchShirts"
        /\ lastFetch'.groupBy # "design"
        /\ lastFetch'.ret.kind = "page")
       => \A k \in 1..Len(lastFetch'.ret.data) :
            LET raw == lastFetch'.response.data.shirts[k]
            IN  NameSourceOf(raw).kind = "object"
                => /\ lastFetch'.ret.data[k].size = NameSourceOf(raw).name
                   /\ getSizeId(cache', lastFetch'.ret.data[k].size)
                          = NameSourceOf(raw)._id]_vars
====
